---- MODULE Spec2Model ----
(***************************************************************************)
(* Model of the dataset-generation pipeline (src/02_dataset_generation):   *)
(* the entry point (__main__.py), the generation graph (main_graph.py,     *)
(* db_graph.py), the database executor (database_executor.py) and the      *)
(* retried schema generation (db_schemas.py, schema_to_sqlalchemy.py).     *)
(*                                                                         *)
(* Text is modelled as a sequence of tokens, so that an f-string or a      *)
(* "+=" is a concatenation and "s in text" is token membership.  A Python  *)
(* value that may be None is modelled as a sequence of length 0 or 1.      *)
(***************************************************************************)
EXTENDS Integers, Sequences, FiniteSets, TLC

\* ------------------------------------------------------------------ bounds
MaxDesc == 2        \* company descriptions the LLM returns at most
MaxPairs == 2       \* question/SQL pairs per database at most
NumRequests == 2    \* requests given to generate_schemas_batch
MaxConcurrency == 2 \* the concurrency argument is drawn from 1..MaxConcurrency

\* stop_after_attempt(4)
MaxAttempts == 4

\* ------------------------------------------------------------- primitives
None == <<>>
Some(x) == <<x>>
IsNone(o) == o = <<>>

Contains(text, tok) == \E k \in 1..Len(text) : text[k] = tok

\* the token of an integer inside a message (f"{result.returncode}")
RcText(rc) == IF rc = 0 THEN "0" ELSE "1"

\* --------------------------------------------------------- input domains
\* SQL statements as token sequences; the third one starts with blanks,
\* is written in lower case and reads the column the second one writes.
SqlPool ==
  << <<"SELECT", "COUNT(*)", "FROM", "Customers">>,
     <<"UPDATE", "Customers", "SET", "active", "=", "1">>,
     <<" ", "select", "name", "FROM", "Customers", "WHERE", "active", "=", "1">> >>

QuestionAt(j) == [question |-> j, sql |-> SqlPool[((j - 1) % 3) + 1]]

\* QuestionSqlPairs.model_dump(): {"questions": [{question, sql}, ...]};
\* the questions of description d start at statement d of the pool
PairList(d, n) == [questions |-> [j \in 1..n |-> QuestionAt(d + j - 1)]]

\* the questions call for description d returns no pair or MaxPairs pairs
PairLists(d) == {PairList(d, n) : n \in {0, MaxPairs}}

\* the final state of one child pipeline (db_graph.DatabaseState)
Artifact(d, pairs) ==
  [database_request |-> d,
   database_models |-> "models.py",
   populate_database_script |-> "populate.py",
   question_sql_pairs |-> pairs]

\* company descriptions are identified by their position
Descriptions(n) == [k \in 1..n |-> k]

\* what happens when a script is run: the script cannot be read, the child
\* cannot be launched, it runs into the timeout, or it exits with a code,
\* having written stderr and stdout
ExecOutcomes ==
  {[kind |-> "read_error", rc |-> 0, stderr |-> "", stdout |-> ""],
   [kind |-> "launch_error", rc |-> 0, stderr |-> "", stdout |-> ""],
   [kind |-> "timeout", rc |-> 0, stderr |-> "IntegrityError", stdout |-> "rows=0"],
   [kind |-> "exit", rc |-> 0, stderr |-> "", stdout |-> "rows=5"],
   [kind |-> "exit", rc |-> 1, stderr |-> "", stdout |-> ""],
   [kind |-> "exit", rc |-> 1, stderr |-> "IntegrityError", stdout |-> ""],
   [kind |-> "exit", rc |-> 1, stderr |-> "IntegrityError", stdout |-> "rows=0"]}

\* the values given to --num-databases
NumDatabasesArgs == {1, 2}

WriteOutcomes == {"written", "write_error"}
QueryOutcomes == {"ok", "execute_error", "connect_error"}

\* ------------------------------------------------------------------ state
VARIABLES
  pc,            \* position of main() / of the executor it runs
  outputDir,     \* --output-dir: "absent", "parent_absent" or "present"
  numDatabases,  \* --num-databases
  stateJson,     \* <output-dir>/state.json: None or Some(state)
  startJson,     \* state.json as it was at startup
  state,         \* main()'s variable state: None or Some(state)
  llmCalls,      \* LLM calls issued so far by this run
  descriptions,  \* State.company_descriptions inside the graph run
  child,         \* the create_database tasks of the fan-out
  dbi,           \* 1 + i of the loop of process_main_graph_output
  modelsFile,    \* create_and_populate_database's models_file
  tempFiles,     \* temporary script files present on disk
  buildRet,      \* what create_and_populate_database returned
  lastExec,      \* the last _execute_python_file call: outcome and return
  qj,            \* 1 + index of the pair validate_queries is at
  queryResults,  \* validate_queries' results
  results,       \* process_main_graph_output's all_results
  dataset,       \* validated_dataset.parquet: None or Some(rows)
  dbFolder,      \* <output-dir>/db exists
  dbFiles,       \* the db_path values whose database file exists
  db,            \* content of the database file built last
  task,          \* generate_schemas_batch: the generate_schemas coroutines
  permits,       \* generate_schemas_batch: value of the semaphore
  batch,         \* generate_schemas_batch: position of the gather
  sqla,          \* a call of tables_to_sqlalchemy_file
  response,      \* parse_python_code: the text of an LLM response
  extracted,     \* parse_python_code: None or Some(the code returned)
  call,          \* _execute_python_file: the call that is made
  ran,           \* _execute_python_file: None or Some(command and return)
  stream,        \* chat: the generator, the chunks it reads, what it yielded
  nucleus        \* top_p_filter: the arguments and None or Some(return)

vars == <<pc, outputDir, dbFolder, dbFiles, db, numDatabases, stateJson, startJson, state, llmCalls,
          descriptions, child, dbi, modelsFile, tempFiles, buildRet,
          lastExec, qj, queryResults, results, dataset, task, permits,
          batch, sqla, response, extracted, call, ran, stream, nucleus>>

mainVars == <<outputDir, numDatabases, stateJson, startJson, state, llmCalls,
              descriptions, child, dataset>>
execVars == <<dbFolder, dbFiles, db, dbi, modelsFile, tempFiles, buildRet, lastExec, qj,
              queryResults, results>>
batchVars == <<task, permits, batch, sqla>>
unitVars == <<response, extracted, call, ran, stream, nucleus>>

\* ------------------------------------------ database_executor.py: helpers
\* str.strip(): drop leading and trailing whitespace
IsBlank(tok) == tok \in {" ", "\t", "\n"}

RECURSIVE LStrip(_)
LStrip(s) == IF Len(s) > 0 /\ IsBlank(Head(s)) THEN LStrip(Tail(s)) ELSE s

RECURSIVE RStrip(_)
RStrip(s) ==
  IF Len(s) > 0 /\ IsBlank(s[Len(s)]) THEN RStrip(SubSeq(s, 1, Len(s) - 1))
  ELSE s

Strip(s) == RStrip(LStrip(s))

\* str.upper() on the tokens that occur
Upper(tok) ==
  CASE tok = "select" -> "SELECT"
    [] tok = "update" -> "UPDATE"
    [] tok = "name" -> "NAME"
    [] OTHER -> tok

\* query.strip().upper().startswith("SELECT")
StartsWithSelect(query) ==
  LET s == Strip(query) IN Len(s) > 0 /\ Upper(s[1]) = "SELECT"

\* the message of the UnboundLocalError Python raises when a handler reads a
\* local name that the failed try body never bound
UnboundLocal(name) ==
  <<"cannot access local variable '", name,
    "' where it is not associated with a value">>

\* variant: the STDOUT part of the message is left out
ScriptFailedMessageNoStdout(o) ==
  <<"Script failed with return code ", RcText(o.rc)>>
  \o (IF o.stderr # "" THEN <<"\nSTDERR: ", o.stderr>> ELSE <<>>)

\* error_msg of a child that exited with a non-zero code
ScriptFailedMessage(o) ==
  <<"Script failed with return code ", RcText(o.rc)>>
  \o (IF o.stderr # "" THEN <<"\nSTDERR: ", o.stderr>> ELSE <<>>)
  \o (IF o.stdout # "" THEN <<"\nSTDOUT: ", o.stdout>> ELSE <<>>)

\* _execute_python_file under the outcome o of its file and process
\* handling.  "import subprocess" is a statement of the try body, so the
\* name is a local of the function: when reading or rewriting the script
\* raises before it, evaluating "except subprocess.TimeoutExpired" raises
\* UnboundLocalError out of the function.
execute_python_file(o) ==
  CASE o.kind = "read_error" ->
         [raised |-> TRUE, success |-> FALSE, msg |-> UnboundLocal("subprocess")]
    [] o.kind = "launch_error" ->
         [raised |-> FALSE, success |-> FALSE,
          msg |-> <<"[Errno 2] No such file or directory: 'python'">>]
    [] o.kind = "timeout" ->
         [raised |-> FALSE, success |-> FALSE,
          msg |-> <<"Script execution timed out">>]
    [] o.kind = "exit" /\ o.rc = 0 ->
         [raised |-> FALSE, success |-> TRUE, msg |-> <<>>]
    [] OTHER ->
         [raised |-> FALSE, success |-> FALSE, msg |-> ScriptFailedMessage(o)]

\* a database file: missing, or an SQLite database without tables or with
\* the table Customers, which has customers rows, active of them with
\* active = 1
Absent == [kind |-> "absent", tables |-> FALSE, customers |-> 0, active |-> 0]
Empty == [kind |-> "sqlite", tables |-> FALSE, customers |-> 0, active |-> 0]
Table(n) == [kind |-> "sqlite", tables |-> TRUE, customers |-> n, active |-> 0]

\* sqlite3.connect(db_path) creates the file when it is missing
Connected(d) == IF d.kind = "absent" THEN Empty ELSE d

\* cursor.fetchall() after a SELECT of the pool: the count, or one row per
\* customer whose column active is 1 (the name of row k is written k; an
\* UPDATE of the pool sets the column in every row)
FetchAll(d, query) ==
  IF Contains(query, "COUNT(*)") THEN << <<d.customers>> >>
  ELSE IF Contains(query, "WHERE") THEN [k \in 1..d.active |-> <<k>>]
  ELSE [k \in 1..d.customers |-> <<k>>]

\* variant: the result of a statement that is not a SELECT is returned
\* without conn.commit(), so closing the connection rolls it back
execute_sql_query_uncommitted(d, query, qo) ==
  CASE qo = "connect_error" ->
         [raised |-> TRUE, success |-> FALSE, result |-> None,
          error |-> UnboundLocal("conn"), db |-> d]
    [] qo = "execute_error" ->
         [raised |-> FALSE, success |-> FALSE, result |-> None,
          error |-> <<"near \"", Strip(query)[1], "\": syntax error">>,
          db |-> Connected(d)]
    [] ~d.tables ->
         [raised |-> FALSE, success |-> FALSE, result |-> None,
          error |-> <<"no such table: ", "Customers">>, db |-> Connected(d)]
    [] StartsWithSelect(query) ->
         [raised |-> FALSE, success |-> TRUE,
          result |-> Some([kind |-> "rows", value |-> FetchAll(d, query)]),
          error |-> <<>>, db |-> d]
    [] OTHER ->
         [raised |-> FALSE, success |-> TRUE,
          result |-> Some([kind |-> "rowcount", value |-> d.customers]),
          error |-> <<>>, db |-> d]

\* _execute_sql_query on the database file d: the connection cannot be
\* opened, the statement raises, or it runs.  In the first case conn is
\* unbound in the handler, conn.close() raises UnboundLocalError, which the
\* inner except clause (sqlite3.Error, AttributeError) does not catch.  A
\* statement that runs is the UPDATE of the pool, which sets active = 1 in
\* every row and is committed, or a SELECT.
execute_sql_query(d, query, qo) ==
  CASE qo = "connect_error" ->
         [raised |-> TRUE, success |-> FALSE, result |-> None,
          error |-> UnboundLocal("conn"), db |-> d]
    [] qo = "execute_error" ->
         [raised |-> FALSE, success |-> FALSE, result |-> None,
          error |-> <<"near \"", Strip(query)[1], "\": syntax error">>,
          db |-> Connected(d)]
    [] ~d.tables ->
         [raised |-> FALSE, success |-> FALSE, result |-> None,
          error |-> <<"no such table: ", "Customers">>, db |-> Connected(d)]
    [] StartsWithSelect(query) ->
         [raised |-> FALSE, success |-> TRUE,
          result |-> Some([kind |-> "rows", value |-> FetchAll(d, query)]),
          error |-> <<>>, db |-> d]
    [] OTHER ->
         [raised |-> FALSE, success |-> TRUE,
          result |-> Some([kind |-> "rowcount", value |-> d.customers]),
          error |-> <<>>, db |-> [d EXCEPT !.active = d.customers]]

\* _validate_database_populated on the database file d
validate_database_populated(d) ==
  CASE ~d.tables ->
         [has_data |-> FALSE, msg |-> <<"No tables found in database">>]
    [] d.customers = 0 ->
         [has_data |-> FALSE,
          msg |-> <<"Database has tables but no data: ", "Customers", "0">>]
    [] OTHER -> [has_data |-> TRUE, msg |-> <<>>]

\* variant: "error": error, without the "if not success else None"
QueryRecordErrorKept(db_path, pair, r) ==
  [db_path |-> db_path,
   question |-> pair.question,
   query |-> pair.sql,
   answer |-> IF r.success THEN r.result ELSE None,
   is_valid |-> r.success,
   error |-> Some(r.error)]

\* the record validate_queries appends for one pair
QueryRecord(db_path, pair, r) ==
  [db_path |-> db_path,
   question |-> pair.question,
   query |-> pair.sql,
   answer |-> IF r.success THEN r.result ELSE None,
   is_valid |-> r.success,
   error |-> IF ~r.success THEN Some(r.error) ELSE None]

\* variant: the error of create_and_populate_database is not put into the
\* record
FailureRecordNoDetail(db_path, pair, error) ==
  [db_path |-> db_path,
   question |-> pair.question,
   query |-> pair.sql,
   answer |-> None,
   is_valid |-> FALSE,
   error |-> Some(<<"Database creation failed">>)]

\* the record process_main_graph_output appends for one pair of a database
\* that could not be built
FailureRecord(db_path, pair, error) ==
  [db_path |-> db_path,
   question |-> pair.question,
   query |-> pair.sql,
   answer |-> None,
   is_valid |-> FALSE,
   error |-> Some(<<"Database creation failed: ">> \o error)]

\* database_info.get("question_sql_pairs", {}).get("questions", [])
QuestionsOf(database_info) == database_info.question_sql_pairs.questions

Databases == state[1].databases

\* db_folder / f"database_{db_index}.db", identified by db_index
DbPath(i) == i - 1

\* the loop of process_main_graph_output moves to the next database, or
\* returns to main() after the last one
AfterDatabase(i) == IF i + 1 > Len(Databases) THEN "save" ELSE "schema"

BuildReturn(i, ok, error) == [db_path |-> DbPath(i), success |-> ok, error |-> error]

NoExec == [outcome |-> [kind |-> "none", rc |-> 0, stderr |-> "", stdout |-> ""],
           ret |-> [raised |-> FALSE, success |-> FALSE, msg |-> <<>>],
           script |-> "none", db |-> 0]

\* ------------------------------------- database_executor.py: the executor
\* the finally block of create_and_populate_database: unlink the files the
\* two locals name
Unlink(files, models_file, populate_file) ==
  files \ ({models_file[k] : k \in 1..Len(models_file)}
           \cup {populate_file[k] : k \in 1..Len(populate_file)})

\* str(e) of the exception f.write raises in _create_temp_python_file
WriteError == <<"'utf-8' codec can't encode character">>

\* what a schema script that exits with 0 leaves at db_path: the table
\* without rows, or nothing when it never calls create_all.  A script
\* that does not run to its end leaves the file as it was.
SchemaContents == {Absent, Table(0)}

\* the numbers of rows a population script inserts
RowCounts == {0, 5}

\* what a population script that exits with 0 leaves at db_path
PopulateContents(d) ==
  IF d.tables THEN {Table(n) : n \in RowCounts} ELSE {d}

\* create_and_populate_database, up to the execution of the schema script:
\* an existing database file is removed first.  _create_temp_python_file
\* opens the file with delete=False and then writes: when the write raises
\* the file stays on disk and models_file is still None.
BuildSchema ==
  /\ pc = "schema"
  /\ \E w \in WriteOutcomes, o \in ExecOutcomes :
       LET name == <<"models", dbi>>
           r == execute_python_file(o)
       IN IF w = "write_error"
          THEN /\ tempFiles' = Unlink(tempFiles \cup {name}, None, None)
               /\ buildRet' = BuildReturn(dbi, FALSE,
                                 <<"Unexpected error: ">> \o WriteError)
               /\ pc' = "built"
               /\ db' = Absent
               /\ dbFiles' = dbFiles \ {DbPath(dbi)}
               /\ UNCHANGED <<modelsFile, lastExec>>
          ELSE /\ lastExec' = [outcome |-> o, ret |-> r, script |-> "schema", db |-> dbi]
               /\ IF r.raised
                  THEN /\ buildRet' = BuildReturn(dbi, FALSE,
                                         <<"Unexpected error: ">> \o r.msg)
                       /\ tempFiles' = Unlink(tempFiles \cup {name}, Some(name), None)
                       /\ pc' = "built"
                       /\ db' = Absent
                       /\ dbFiles' = dbFiles \ {DbPath(dbi)}
                       /\ UNCHANGED modelsFile
                  ELSE IF ~r.success
                  THEN /\ buildRet' = BuildReturn(dbi, FALSE,
                                         <<"Failed to create schema: ">> \o r.msg)
                       /\ tempFiles' = Unlink(tempFiles \cup {name}, Some(name), None)
                       /\ pc' = "built"
                       /\ db' = Absent
                       /\ dbFiles' = dbFiles \ {DbPath(dbi)}
                       /\ UNCHANGED modelsFile
                  ELSE /\ modelsFile' = Some(name)
                       /\ tempFiles' = tempFiles \cup {name}
                       /\ pc' = "populate"
                       /\ db' \in SchemaContents
                       /\ dbFiles' = IF db'.kind = "absent"
                                     THEN dbFiles \ {DbPath(dbi)}
                                     ELSE dbFiles \cup {DbPath(dbi)}
                       /\ UNCHANGED buildRet
  /\ UNCHANGED <<dbFolder, dbi, qj, queryResults, results>>
  /\ UNCHANGED mainVars
  /\ UNCHANGED batchVars
  /\ UNCHANGED unitVars

\* variant: a database the validation finds empty is reported as failed
PopulatedReturnStrict(i, validation) ==
  IF validation.has_data THEN BuildReturn(i, TRUE, <<>>)
  ELSE BuildReturn(i, FALSE, validation.msg)

\* create_and_populate_database after both scripts succeeded: the result
\* of _validate_database_populated is logged as a warning and success is
\* returned
PopulatedReturn(i, validation) == BuildReturn(i, TRUE, <<>>)

\* create_and_populate_database from the population script to its return
BuildPopulate ==
  /\ pc = "populate"
  /\ \E w \in WriteOutcomes, o \in ExecOutcomes :
       LET name == <<"populate", dbi>>
           r == execute_python_file(o)
       IN IF w = "write_error"
          THEN /\ tempFiles' = Unlink(tempFiles \cup {name}, modelsFile, None)
               /\ buildRet' = BuildReturn(dbi, FALSE,
                                 <<"Unexpected error: ">> \o WriteError)
               /\ UNCHANGED <<lastExec, db>>
          ELSE /\ lastExec' = [outcome |-> o, ret |-> r, script |-> "populate",
                            db |-> dbi]
               /\ tempFiles' = Unlink(tempFiles \cup {name}, modelsFile, Some(name))
               /\ IF r.raised
                  THEN /\ buildRet' = BuildReturn(dbi, FALSE,
                                         <<"Unexpected error: ">> \o r.msg)
                       /\ UNCHANGED db
                  ELSE IF ~r.success
                  THEN /\ buildRet' = BuildReturn(dbi, FALSE,
                                         <<"Failed to populate database: ">> \o r.msg)
                       /\ UNCHANGED db
                  ELSE \E d \in PopulateContents(db) :
                         /\ db' = Connected(d)
                         /\ buildRet' =
                              PopulatedReturn(dbi, validate_database_populated(db'))
  /\ dbFiles' = IF db'.kind = "absent" THEN dbFiles \ {DbPath(dbi)}
                ELSE dbFiles \cup {DbPath(dbi)}
  /\ modelsFile' = None
  /\ pc' = "built"
  /\ UNCHANGED <<dbFolder, dbi, qj, queryResults, results>>
  /\ UNCHANGED mainVars
  /\ UNCHANGED batchVars
  /\ UNCHANGED unitVars

\* the records of a database that could not be built
FailureRecords(database_info, ret) ==
  [j \in 1..Len(QuestionsOf(database_info)) |->
     FailureRecord(ret.db_path, QuestionsOf(database_info)[j], ret.error)]

\* variant: "break" in place of "continue" after the failure records
AfterBuildStops ==
  /\ pc = "built"
  /\ IF ~buildRet.success
     THEN /\ results' = results \o FailureRecords(Databases[dbi], buildRet)
          /\ pc' = "save"
          /\ dbi' = dbi + 1
          /\ UNCHANGED <<qj, queryResults>>
     ELSE /\ qj' = 1
          /\ queryResults' = <<>>
          /\ pc' = "validate"
          /\ UNCHANGED <<dbi, results>>
  /\ UNCHANGED <<dbFolder, dbFiles, db, modelsFile, tempFiles, buildRet,
                 lastExec>>
  /\ UNCHANGED mainVars
  /\ UNCHANGED batchVars
  /\ UNCHANGED unitVars

\* variant: the queries are validated whatever create_and_populate_database
\* returned
AfterBuildValidatesAll ==
  /\ pc = "built"
  /\ qj' = 1
  /\ queryResults' = <<>>
  /\ pc' = "validate"
  /\ UNCHANGED <<dbi, results>>
  /\ UNCHANGED <<dbFolder, dbFiles, db, modelsFile, tempFiles, buildRet,
                 lastExec>>
  /\ UNCHANGED mainVars
  /\ UNCHANGED batchVars
  /\ UNCHANGED unitVars

\* process_main_graph_output after create_and_populate_database returned
AfterBuild ==
  /\ pc = "built"
  /\ IF ~buildRet.success
     THEN /\ results' = results \o FailureRecords(Databases[dbi], buildRet)
          /\ pc' = AfterDatabase(dbi)
          /\ dbi' = dbi + 1
          /\ UNCHANGED <<qj, queryResults>>
     ELSE /\ qj' = 1
          /\ queryResults' = <<>>
          /\ pc' = "validate"
          /\ UNCHANGED <<dbi, results>>
  /\ UNCHANGED <<dbFolder, dbFiles, db, modelsFile, tempFiles, buildRet,
                 lastExec>>
  /\ UNCHANGED mainVars
  /\ UNCHANGED batchVars
  /\ UNCHANGED unitVars

\* one iteration of the loop of validate_queries
ValidateQuery ==
  /\ pc = "validate"
  /\ qj <= Len(QuestionsOf(Databases[dbi]))
  /\ \E qo \in QueryOutcomes :
       LET pair == QuestionsOf(Databases[dbi])[qj]
           r == execute_sql_query(db, pair.sql, qo)
       IN IF r.raised
          THEN /\ pc' = "raised"
               /\ UNCHANGED <<qj, queryResults, db>>
          ELSE /\ queryResults' =
                    Append(queryResults, QueryRecord(buildRet.db_path, pair, r))
               /\ qj' = qj + 1
               /\ db' = r.db
               /\ UNCHANGED pc
  /\ UNCHANGED <<dbFolder, dbFiles, dbi, modelsFile, tempFiles, buildRet,
                 lastExec, results>>
  /\ UNCHANGED mainVars
  /\ UNCHANGED batchVars
  /\ UNCHANGED unitVars

\* validate_queries returns and all_results is extended
ValidateReturn ==
  /\ pc = "validate"
  /\ qj > Len(QuestionsOf(Databases[dbi]))
  /\ results' = results \o queryResults
  /\ pc' = AfterDatabase(dbi)
  /\ dbi' = dbi + 1
  /\ UNCHANGED <<dbFolder, dbFiles, db, modelsFile, tempFiles, buildRet,
                 lastExec, qj, queryResults>>
  /\ UNCHANGED mainVars
  /\ UNCHANGED batchVars
  /\ UNCHANGED unitVars

\* json.dumps of the answer column in save_dataset
DatasetRow(rec) ==
  [rec EXCEPT !.answer =
     IF IsNone(rec.answer) THEN None ELSE Some(<<"json", rec.answer[1]>>)]

\* save_dataset: validated_dataset.parquet is written
SaveDataset ==
  /\ pc = "save"
  /\ dataset' = Some([k \in 1..Len(results) |-> DatasetRow(results[k])])
  /\ pc' = "done"
  /\ UNCHANGED <<outputDir, numDatabases, stateJson, startJson, state, llmCalls,
                 descriptions, child>>
  /\ UNCHANGED execVars
  /\ UNCHANGED batchVars
  /\ UNCHANGED unitVars

\* ------------------------------------------------- main_graph / db_graph
\* json.load of a state.json that json.dump wrote: objects become dicts and
\* arrays lists, strings and integers are kept
JsonLoad(text) == text
JsonDump(value) == value

\* a create_database task at its start: asyncio.sleep(2) is pending
NewChild(request) ==
  [stage |-> "sleep", database_request |-> request, database_models |-> None,
   populate_database_script |-> None, question_sql_pairs |-> None]

\* a key of the subgraph's state, present once a node has returned it
Key(name, value) ==
  IF IsNone(value) THEN [x \in {} |-> x] ELSE (name :> value[1])

\* {"databases": [result]} of a task whose subgraph reached END: result is
\* the subgraph's state, which holds the keys the nodes have returned
ChildResult(c) ==
  [database_request |-> c.database_request]
    @@ Key("database_models", c.database_models)
    @@ Key("populate_database_script", c.populate_database_script)
    @@ Key("question_sql_pairs", c.question_sql_pairs)

\* variant: populate_database is wired to END, not to generate_questions
EdgeToEndAfterPopulate(stage) ==
  CASE stage = "schema" -> "populate"
    [] stage = "populate" -> "done"
    [] stage = "questions" -> "done"
    [] OTHER -> stage

\* the edges of db_graph: START, create_database_models,
\* populate_database, generate_questions, END
Edge(stage) ==
  CASE stage = "schema" -> "populate"
    [] stage = "populate" -> "questions"
    [] stage = "questions" -> "done"
    [] OTHER -> stage

\* variant: the existing state.json is not looked at
StartRegenerates ==
  /\ pc = "start"
  /\ outputDir' = IF outputDir = "parent_absent" THEN outputDir ELSE "present"
  /\ pc' = IF outputDir = "parent_absent" THEN "raised" ELSE "descriptions"
  /\ UNCHANGED <<numDatabases, stateJson, startJson, state, llmCalls,
                 descriptions, child, dataset>>
  /\ UNCHANGED execVars
  /\ UNCHANGED batchVars
  /\ UNCHANGED unitVars

\* main(): output_dir.mkdir(exist_ok=True), which raises FileNotFoundError
\* when the parent directory is missing, and state.json is looked for
Start ==
  /\ pc = "start"
  /\ IF outputDir = "parent_absent"
     THEN /\ pc' = "raised"
          /\ UNCHANGED <<outputDir, state>>
     ELSE /\ outputDir' = "present"
          /\ IF ~IsNone(stateJson)
             THEN /\ state' = Some(JsonLoad(stateJson[1]))
                  /\ pc' = "process"
             ELSE /\ pc' = "descriptions"
                  /\ UNCHANGED state
  /\ UNCHANGED <<numDatabases, stateJson, startJson, llmCalls, descriptions,
                 child, dataset>>
  /\ UNCHANGED execVars
  /\ UNCHANGED batchVars
  /\ UNCHANGED unitVars

\* generate_company_descriptions: one structured LLM call; it raises, or it
\* returns some descriptions and the conditional edge sends one
\* create_database task per description
GenerateDescriptions ==
  /\ pc = "descriptions"
  /\ llmCalls' = llmCalls + 1
  /\ \/ /\ pc' = "raised"
        /\ UNCHANGED <<descriptions, child>>
     \/ \E n \in 0..MaxDesc :
          /\ descriptions' = Descriptions(n)
          /\ child' = [k \in 1..n |-> NewChild(Descriptions(n)[k])]
          /\ pc' = "children"
  /\ UNCHANGED <<outputDir, numDatabases, stateJson, startJson, state, dataset>>
  /\ UNCHANGED execVars
  /\ UNCHANGED batchVars
  /\ UNCHANGED unitVars

\* create_database_wrapper: await asyncio.sleep(2)
ChildSleep(k) ==
  /\ pc = "children"
  /\ child[k].stage = "sleep"
  /\ child' = [child EXCEPT ![k].stage = "schema"]
  /\ UNCHANGED <<pc, outputDir, numDatabases, stateJson, startJson, state, llmCalls,
                 descriptions, dataset>>
  /\ UNCHANGED execVars
  /\ UNCHANGED batchVars
  /\ UNCHANGED unitVars

\* an LLM stage of task k raised: nothing catches it in the node, the
\* wrapper or the graph, so main_graph.ainvoke raises
ChildRaises(k) ==
  /\ pc = "children"
  /\ child[k].stage \in {"schema", "populate", "questions"}
  /\ llmCalls' = llmCalls + 1
  /\ child' = [child EXCEPT ![k].stage = "failed"]
  /\ pc' = "raised"
  /\ UNCHANGED <<outputDir, numDatabases, stateJson, startJson, state, descriptions,
                 dataset>>
  /\ UNCHANGED execVars
  /\ UNCHANGED batchVars
  /\ UNCHANGED unitVars

\* db_graph node create_database_models
CreateDatabaseModels(k) ==
  /\ pc = "children"
  /\ child[k].stage = "schema"
  /\ llmCalls' = llmCalls + 1
  /\ child' = [child EXCEPT ![k].stage = Edge("schema"),
                            ![k].database_models = Some("models.py")]
  /\ UNCHANGED <<pc, outputDir, numDatabases, stateJson, startJson, state, descriptions,
                 dataset>>
  /\ UNCHANGED execVars
  /\ UNCHANGED batchVars
  /\ UNCHANGED unitVars

\* db_graph node populate_database
PopulateDatabase(k) ==
  /\ pc = "children"
  /\ child[k].stage = "populate"
  /\ llmCalls' = llmCalls + 1
  /\ child' = [child EXCEPT ![k].stage = Edge("populate"),
                            ![k].populate_database_script = Some("populate.py")]
  /\ UNCHANGED <<pc, outputDir, numDatabases, stateJson, startJson, state, descriptions,
                 dataset>>
  /\ UNCHANGED execVars
  /\ UNCHANGED batchVars
  /\ UNCHANGED unitVars

\* db_graph node generate_questions
GenerateQuestions(k) ==
  /\ pc = "children"
  /\ child[k].stage = "questions"
  /\ llmCalls' = llmCalls + 1
  /\ \E pairs \in PairLists(child[k].database_request) :
       child' = [child EXCEPT ![k].stage = Edge("questions"),
                              ![k].question_sql_pairs = Some(pairs)]
  /\ UNCHANGED <<pc, outputDir, numDatabases, stateJson, startJson, state, descriptions,
                 dataset>>
  /\ UNCHANGED execVars
  /\ UNCHANGED batchVars
  /\ UNCHANGED unitVars

\* variant: databases has no reducer and keeps the last task's write
FanInLastWins ==
  /\ pc = "children"
  /\ \A k \in 1..Len(child) : child[k].stage = "done"
  /\ state' = Some([company_descriptions |-> descriptions,
                    databases |-> IF Len(child) = 0 THEN <<>>
                                  ELSE <<ChildResult(child[Len(child)])>>,
                    num_requests |-> numDatabases])
  /\ pc' = "save_state"
  /\ UNCHANGED <<outputDir, numDatabases, stateJson, startJson, llmCalls, descriptions,
                 child, dataset>>
  /\ UNCHANGED execVars
  /\ UNCHANGED batchVars
  /\ UNCHANGED unitVars

\* the superstep of the create_database tasks ends: their writes are added
\* to databases (operator.add) in the order of the Sends, and ainvoke
\* returns the state
FanIn ==
  /\ pc = "children"
  /\ \A k \in 1..Len(child) : child[k].stage = "done"
  /\ state' = Some([company_descriptions |-> descriptions,
                    databases |-> [k \in 1..Len(child) |-> ChildResult(child[k])],
                    num_requests |-> numDatabases])
  /\ pc' = "save_state"
  /\ UNCHANGED <<outputDir, numDatabases, stateJson, startJson, llmCalls, descriptions,
                 child, dataset>>
  /\ UNCHANGED execVars
  /\ UNCHANGED batchVars
  /\ UNCHANGED unitVars

\* variant: main() goes on to the executor without writing state.json
SaveStateSkipped ==
  /\ pc = "save_state"
  /\ pc' = "process"
  /\ UNCHANGED <<outputDir, numDatabases, stateJson, startJson, state, llmCalls,
                 descriptions, child, dataset>>
  /\ UNCHANGED execVars
  /\ UNCHANGED batchVars
  /\ UNCHANGED unitVars

\* main(): json.dump(state) into state.json
SaveState ==
  /\ pc = "save_state"
  /\ stateJson' = Some(JsonDump(state[1]))
  /\ pc' = "process"
  /\ UNCHANGED <<outputDir, numDatabases, startJson, state, llmCalls, descriptions,
                 child, dataset>>
  /\ UNCHANGED execVars
  /\ UNCHANGED batchVars
  /\ UNCHANGED unitVars

\* main(): DatabaseExecutor(db_folder) and the start of
\* process_main_graph_output
ProcessStart ==
  /\ pc = "process"
  /\ dbi' = 1
  /\ results' = <<>>
  /\ pc' = IF Len(Databases) = 0 THEN "save" ELSE "schema"
  /\ dbFolder' = TRUE
  /\ UNCHANGED <<dbFiles, db, modelsFile, tempFiles, buildRet, lastExec, qj,
                 queryResults>>
  /\ UNCHANGED mainVars
  /\ UNCHANGED batchVars
  /\ UNCHANGED unitVars

\* no call of _execute_python_file is at hand
NoScript == [script |-> "none", models_file_path |-> None, code |-> <<>>,
             outcome |-> [kind |-> "none", rc |-> 0, stderr |-> "", stdout |-> ""]]

\* a chat generator that was not created, a filter that was not called
NoStream == [pc |-> "none", history |-> <<>>, chunks |-> <<>>, pos |-> 0,
             to_return |-> <<>>, yielded |-> <<>>]
NoFilter == [probs |-> <<>>, p |-> 0, ret |-> None]

\* no batch of schema requests is at hand
NoBatch == [pc |-> "none", concurrency |-> 0, completed |-> <<>>,
            schemas |-> <<>>, written |-> <<>>]

\* a retried call that has not been made
NoCall == [pc |-> "none", attempt |-> 0, calls |-> 0, failures |-> 0,
           waits |-> 0, result |-> None]

\* ------------------------------------------------------- the specification
\* the states a run that completed generation can have left in state.json
PersistedStates ==
  UNION {{[company_descriptions |-> Descriptions(n),
           databases |-> [k \in 1..n |-> Artifact(k, f[k])],
           num_requests |-> n] :
            f \in {g \in [1..n -> UNION {PairLists(d) : d \in 1..n}] :
                     \A k \in 1..n : g[k] \in PairLists(k)}} : n \in 0..MaxDesc}

Init ==
  /\ pc = "start"
  /\ numDatabases \in NumDatabasesArgs
  /\ stateJson \in {None} \cup {Some(s) : s \in PersistedStates}
  /\ startJson = stateJson
  /\ outputDir \in IF IsNone(stateJson) THEN {"absent", "parent_absent"}
                   ELSE {"present"}
  /\ dbFolder = FALSE
  /\ dbFiles = {}
  /\ db = Absent
  /\ state = None
  /\ llmCalls = 0
  /\ descriptions = <<>>
  /\ child = <<>>
  /\ dbi = 1
  /\ modelsFile = None
  /\ tempFiles = {}
  /\ buildRet = BuildReturn(1, FALSE, <<>>)
  /\ lastExec = NoExec
  /\ qj = 1
  /\ queryResults = <<>>
  /\ results = <<>>
  /\ dataset = None
  /\ task = <<>>
  /\ permits = 0
  /\ batch = NoBatch
  /\ sqla = NoCall
  /\ response = <<>>
  /\ extracted = None
  /\ call = NoScript
  /\ ran = None
  /\ stream = NoStream
  /\ nucleus = NoFilter

Next ==
  \/ Start
  \/ GenerateDescriptions
  \/ \E k \in 1..Len(child) : ChildSleep(k)
  \/ \E k \in 1..Len(child) : ChildRaises(k)
  \/ \E k \in 1..Len(child) : CreateDatabaseModels(k)
  \/ \E k \in 1..Len(child) : PopulateDatabase(k)
  \/ \E k \in 1..Len(child) : GenerateQuestions(k)
  \/ FanIn
  \/ SaveState
  \/ ProcessStart
  \/ BuildSchema
  \/ BuildPopulate
  \/ AfterBuild
  \/ ValidateQuery
  \/ ValidateReturn
  \/ SaveDataset

Spec == Init /\ [][Next]_vars

\* ------------------------------- db_schemas.py / schema_to_sqlalchemy.py
\* what a completion call can come back with
ApiOutcomes == {"valid", "invalid", "raises"}
SqlaOutcomes == {"fenced", "unfenced", "raises"}

\* variant: the comparison is strict, which allows a fifth attempt
stop_after_attempt_strict(attempt_number) == attempt_number > MaxAttempts

\* tenacity stop_after_attempt(4): stop once attempt_number >= 4
stop_after_attempt(attempt_number) == attempt_number >= MaxAttempts

\* a call decorated with @retry at its first attempt
FirstAttempt(first_pc) ==
  [pc |-> first_pc, attempt |-> 1, calls |-> 0, failures |-> 0, waits |-> 0,
   result |-> None]

\* tenacity after an attempt raised: RetryError when the stop condition
\* holds, otherwise wait_fixed(15) before the next attempt
AttemptFailed(t) ==
  IF stop_after_attempt(t.attempt)
  THEN [t EXCEPT !.pc = "failed", !.failures = @ + 1]
  ELSE [t EXCEPT !.pc = "waiting", !.failures = @ + 1]

\* tenacity after the wait: attempt_number += 1 and the function is called
\* again
AttemptAgain(t, first_pc) ==
  [t EXCEPT !.pc = first_pc, !.attempt = @ + 1, !.waits = @ + 1]

\* DatabaseSchema.model_validate_json of the response to request r
ValidatedSchema(r) == [request |-> r, tables |-> "tables"]

\* variant: the call is made without entering the semaphore block first
AcquireUnguarded(r) ==
  /\ batch.pc = "running"
  /\ task[r].pc = "acquire"
  /\ permits' = permits - 1
  /\ task' = [task EXCEPT ![r].pc = "calling", ![r].calls = @ + 1]
  /\ UNCHANGED <<batch, sqla>>
  /\ UNCHANGED <<pc, mainVars, execVars, unitVars>>

\* generate_schemas: "async with semaphore" is entered and acompletion is
\* awaited
Acquire(r) ==
  /\ batch.pc = "running"
  /\ task[r].pc = "acquire"
  /\ permits > 0
  /\ permits' = permits - 1
  /\ task' = [task EXCEPT ![r].pc = "calling", ![r].calls = @ + 1]
  /\ UNCHANGED <<batch, sqla>>
  /\ UNCHANGED <<pc, mainVars, execVars, unitVars>>

\* variant: the permit is given back only when the call succeeded, so a
\* coroutine keeps it while it waits for its retry
CompletionHoldsPermit(r) ==
  /\ batch.pc = "running"
  /\ task[r].pc = "calling"
  /\ \E a \in ApiOutcomes :
       /\ permits' = IF a = "valid" THEN permits + 1 ELSE permits
       /\ task' = [task EXCEPT ![r] =
                     IF a = "valid"
                     THEN [@ EXCEPT !.pc = "returned",
                                    !.result = Some(ValidatedSchema(r))]
                     ELSE AttemptFailed(@)]
       /\ batch' = IF a = "valid"
                   THEN [batch EXCEPT !.completed = Append(@, r)]
                   ELSE batch
  /\ UNCHANGED sqla
  /\ UNCHANGED <<pc, mainVars, execVars, unitVars>>

\* generate_schemas: acompletion returns or raises, the response is
\* validated, and the semaphore is released on the way out of the block;
\* batch.completed keeps the order in which the coroutines return
Completion(r) ==
  /\ batch.pc = "running"
  /\ task[r].pc = "calling"
  /\ permits' = permits + 1
  /\ \E a \in ApiOutcomes :
       /\ task' = [task EXCEPT ![r] =
                     IF a = "valid"
                     THEN [@ EXCEPT !.pc = "returned",
                                    !.result = Some(ValidatedSchema(r))]
                     ELSE AttemptFailed(@)]
       /\ batch' = IF a = "valid"
                   THEN [batch EXCEPT !.completed = Append(@, r)]
                   ELSE batch
  /\ UNCHANGED sqla
  /\ UNCHANGED <<pc, mainVars, execVars, unitVars>>

\* generate_schemas: the fixed wait between two attempts is over
WaitFixed(r) ==
  /\ batch.pc = "running"
  /\ task[r].pc = "waiting"
  /\ task' = [task EXCEPT ![r] = AttemptAgain(@, "acquire")]
  /\ UNCHANGED <<permits, batch, sqla>>
  /\ UNCHANGED <<pc, mainVars, execVars, unitVars>>

\* variant: the results are returned in the order of completion, as
\* asyncio.as_completed would deliver them
GatherReturnAsCompleted ==
  /\ batch.pc = "running"
  /\ \A r \in 1..Len(task) : task[r].pc = "returned"
  /\ batch' = [batch EXCEPT
       !.pc = "returned",
       !.schemas = [k \in 1..Len(task) |-> task[batch.completed[k]].result[1]]]
  /\ UNCHANGED <<task, permits, sqla>>
  /\ UNCHANGED <<pc, mainVars, execVars, unitVars>>

\* asyncio.gather returns the results in the order of the tasks
GatherReturn ==
  /\ batch.pc = "running"
  /\ \A r \in 1..Len(task) : task[r].pc = "returned"
  /\ batch' = [batch EXCEPT
       !.pc = "returned",
       !.schemas = [r \in 1..Len(task) |-> task[r].result[1]]]
  /\ UNCHANGED <<task, permits, sqla>>
  /\ UNCHANGED <<pc, mainVars, execVars, unitVars>>

\* DatabaseSchemaWithRequest.from_database_schema(schema, request)
from_database_schema(database_schema, request) ==
  [request |-> request, tables |-> database_schema.tables,
   generated_for |-> database_schema.request]

\* db_schemas.main: zip(schemas, requests), and the list is written
WriteSchemas ==
  /\ batch.pc = "returned"
  /\ batch' = [batch EXCEPT
       !.pc = "written",
       !.written = [k \in 1..Len(batch.schemas) |->
                      from_database_schema(batch.schemas[k], k)]]
  /\ UNCHANGED <<task, permits, sqla>>
  /\ UNCHANGED <<pc, mainVars, execVars, unitVars>>

\* a task ended with RetryError: gather raises it to main(), and
\* asyncio.run cancels the tasks that are still pending, which leave the
\* semaphore block if they are inside it
Cancelled(t) == IF t.pc \in {"acquire", "calling", "waiting"}
                THEN [t EXCEPT !.pc = "cancelled"] ELSE t

GatherRaise ==
  /\ batch.pc = "running"
  /\ \E r \in 1..Len(task) : task[r].pc = "failed"
  /\ batch' = [batch EXCEPT !.pc = "raised"]
  /\ task' = [r \in 1..Len(task) |-> Cancelled(task[r])]
  /\ permits' = permits + Cardinality({r \in 1..Len(task) : task[r].pc = "calling"})
  /\ UNCHANGED sqla
  /\ UNCHANGED <<pc, mainVars, execVars, unitVars>>

\* tables_to_sqlalchemy_file: the prompt is built and acompletion awaited
SqlaCall ==
  /\ sqla.pc = "call"
  /\ sqla' = [sqla EXCEPT !.pc = "calling", !.calls = @ + 1]
  /\ UNCHANGED <<task, permits, batch>>
  /\ UNCHANGED <<pc, mainVars, execVars, unitVars>>

\* tables_to_sqlalchemy_file: acompletion returns or raises;
\* schema_to_sqlalchemy.parse_python_code raises IndexError when the
\* response has no python fence; otherwise the code is written to the file
SqlaCompletion ==
  /\ sqla.pc = "calling"
  /\ \E a \in SqlaOutcomes :
       sqla' = IF a = "fenced"
               THEN [sqla EXCEPT !.pc = "returned", !.result = Some("code")]
               ELSE AttemptFailed(sqla)
  /\ UNCHANGED <<task, permits, batch>>
  /\ UNCHANGED <<pc, mainVars, execVars, unitVars>>

\* tables_to_sqlalchemy_file: the fixed wait between two attempts is over
SqlaWait ==
  /\ sqla.pc = "waiting"
  /\ sqla' = AttemptAgain(sqla, "call")
  /\ UNCHANGED <<task, permits, batch>>
  /\ UNCHANGED <<pc, mainVars, execVars, unitVars>>

InitBatch ==
  /\ pc = "batch"
  /\ outputDir = "absent"
  /\ dbFolder = FALSE
  /\ dbFiles = {}
  /\ db = Absent
  /\ numDatabases = 1
  /\ stateJson = None
  /\ startJson = None
  /\ state = None
  /\ llmCalls = 0
  /\ descriptions = <<>>
  /\ child = <<>>
  /\ dbi = 1
  /\ modelsFile = None
  /\ tempFiles = {}
  /\ buildRet = BuildReturn(1, FALSE, <<>>)
  /\ lastExec = NoExec
  /\ qj = 1
  /\ queryResults = <<>>
  /\ results = <<>>
  /\ dataset = None
  /\ task = [r \in 1..NumRequests |-> FirstAttempt("acquire")]
  /\ \E n \in 1..MaxConcurrency :
       /\ permits = n
       /\ batch = [pc |-> "running", concurrency |-> n, completed |-> <<>>,
                   schemas |-> <<>>, written |-> <<>>]
  /\ sqla = FirstAttempt("call")
  /\ response = <<>>
  /\ extracted = None
  /\ call = NoScript
  /\ ran = None
  /\ stream = NoStream
  /\ nucleus = NoFilter

NextBatch ==
  \/ \E r \in 1..Len(task) : Acquire(r)
  \/ \E r \in 1..Len(task) : Completion(r)
  \/ \E r \in 1..Len(task) : WaitFixed(r)
  \/ GatherReturn
  \/ WriteSchemas
  \/ GatherRaise
  \/ SqlaCall
  \/ SqlaCompletion
  \/ SqlaWait

SpecBatch == InitBatch /\ [][NextBatch]_vars

\* the scheduling generate_schemas_batch relies on: an API call that was
\* made returns or raises, the fixed wait of a retry ends, the event loop
\* resumes a coroutine that waits for the semaphore while a permit is
\* free, and gather, main and asyncio.run go on when the coroutines ended
BatchFairness ==
  /\ \A r \in 1..NumRequests : WF_vars(Acquire(r))
  /\ \A r \in 1..NumRequests : WF_vars(Completion(r))
  /\ \A r \in 1..NumRequests : WF_vars(WaitFixed(r))
  /\ WF_vars(GatherReturn)
  /\ WF_vars(WriteSchemas)
  /\ WF_vars(GatherRaise)

SpecBatchFair == InitBatch /\ [][NextBatch]_vars /\ BatchFairness

\* -------------------------------------------- db_graph.parse_python_code
\* a text is a sequence of tokens: the fence marker of three backquotes,
\* the language tag (which forms the python fence right after a marker),
\* the newline, a blank, a
\* code fragment that holds one of the python_indicators ("import ") and
\* one that holds none
Fence == "FENCE"
TextTokens == {Fence, "python", "\n", " ", "import os", "x = 1"}

MaxTextLen == 5

Texts == UNION {[1..n -> TextTokens] : n \in 0..MaxTextLen}

Min(S) == CHOOSE x \in S : \A y \in S : x <= y

\* the occurrences of the marker and of the python fence in code
FenceAt(code) == {i \in 1..Len(code) : code[i] = Fence}
PythonFenceAt(code) ==
  {i \in FenceAt(code) : i < Len(code) /\ code[i + 1] = "python"}

\* s.split(marker)[0]
UpToFence(s) ==
  IF FenceAt(s) = {} THEN s ELSE SubSeq(s, 1, Min(FenceAt(s)) - 1)

\* code.split(python fence)[1].split(marker)[0]: the next python fence
\* starts with a marker, so the text ends at the next marker of either kind
PythonBlock(code) ==
  UpToFence(SubSeq(code, Min(PythonFenceAt(code)) + 2, Len(code)))

\* code.split(marker)[1]
SecondPart(code) ==
  UpToFence(SubSeq(code, Min(FenceAt(code)) + 1, Len(code)))

\* code.split('\n')
RECURSIVE SplitLines(_)
SplitLines(s) ==
  LET nl == {k \in 1..Len(s) : s[k] = "\n"}
  IN IF nl = {} THEN <<s>>
     ELSE <<SubSeq(s, 1, Min(nl) - 1)>>
            \o SplitLines(SubSeq(s, Min(nl) + 1, Len(s)))

\* any(indicator in line for indicator in python_indicators)
IndicatorTokens == {"import os"}
HasIndicator(line) == \E k \in 1..Len(line) : line[k] \in IndicatorTokens

\* not line.strip()
IsBlankLine(line) == \A k \in 1..Len(line) : IsBlank(line[k])

\* variant: found_code is not kept, a line is taken only when it holds an
\* indicator itself
RECURSIVE CodeLinesIndicatorOnly(_, _)
CodeLinesIndicatorOnly(lines, found_code) ==
  IF Len(lines) = 0 THEN <<>>
  ELSE LET line == Head(lines)
           found == HasIndicator(line)
       IN (IF found /\ ~IsBlankLine(line) THEN <<line>> ELSE <<>>)
            \o CodeLinesIndicatorOnly(Tail(lines), found)

\* the loop that fills code_lines: from the first line that holds an
\* indicator on, every line that is not blank is taken as it is
RECURSIVE CodeLines(_, _)
CodeLines(lines, found_code) ==
  IF Len(lines) = 0 THEN <<>>
  ELSE LET line == Head(lines)
           found == found_code \/ HasIndicator(line)
       IN (IF found /\ ~IsBlankLine(line) THEN <<line>> ELSE <<>>)
            \o CodeLines(Tail(lines), found)

\* '\n'.join(code_lines)
RECURSIVE Join(_)
Join(lines) ==
  IF Len(lines) = 0 THEN <<>>
  ELSE IF Len(lines) = 1 THEN lines[1]
  ELSE lines[1] \o <<"\n">> \o Join(Tail(lines))

\* code.replace(marker, '')
RemoveFences(code) == SelectSeq(code, LAMBDA tok : tok # Fence)

Placeholder == <<"# No valid code could be extracted">>

\* variant: the branch for any fence is tried before the branch for the
\* python fence
parse_python_code_any_fence_first(code) ==
  IF Cardinality(FenceAt(code)) >= 2 /\ Strip(SecondPart(code)) # <<>>
  THEN Strip(SecondPart(code))
  ELSE IF PythonFenceAt(code) # {}
  THEN Strip(PythonBlock(code))
  ELSE LET code_lines == CodeLines(SplitLines(code), FALSE)
           cleaned == Strip(RemoveFences(code))
       IN IF Len(code_lines) > 0 THEN Join(code_lines)
          ELSE IF cleaned # <<>> THEN cleaned
          ELSE Placeholder

\* parse_python_code
parse_python_code(code) ==
  IF PythonFenceAt(code) # {}
  THEN Strip(PythonBlock(code))
  ELSE IF Cardinality(FenceAt(code)) >= 2 /\ Strip(SecondPart(code)) # <<>>
  THEN Strip(SecondPart(code))
  ELSE LET code_lines == CodeLines(SplitLines(code), FALSE)
           cleaned == Strip(RemoveFences(code))
       IN IF Len(code_lines) > 0 THEN Join(code_lines)
          ELSE IF cleaned # <<>> THEN cleaned
          ELSE Placeholder

\* the chain of a db_graph node hands the text of the LLM response to
\* parse_python_code
ParseResponse ==
  /\ pc = "parse"
  /\ IsNone(extracted)
  /\ extracted' = Some(parse_python_code(response))
  /\ UNCHANGED <<response, call, ran, stream, nucleus>>
  /\ UNCHANGED <<pc, mainVars, execVars, batchVars>>

InitParse ==
  /\ pc = "parse"
  /\ response \in Texts
  /\ extracted = None
  /\ call = NoScript
  /\ ran = None
  /\ stream = NoStream
  /\ nucleus = NoFilter
  /\ outputDir = "absent"
  /\ dbFolder = FALSE
  /\ dbFiles = {}
  /\ db = Absent
  /\ numDatabases = 1
  /\ stateJson = None
  /\ startJson = None
  /\ state = None
  /\ llmCalls = 0
  /\ descriptions = <<>>
  /\ child = <<>>
  /\ dbi = 1
  /\ modelsFile = None
  /\ tempFiles = {}
  /\ buildRet = BuildReturn(1, FALSE, <<>>)
  /\ lastExec = NoExec
  /\ qj = 1
  /\ queryResults = <<>>
  /\ results = <<>>
  /\ dataset = None
  /\ task = <<>>
  /\ permits = 0
  /\ batch = NoBatch
  /\ sqla = NoCall

NextParse == ParseResponse

SpecParse == InitParse /\ [][NextParse]_vars

\* ---------------------------------- database_executor._execute_python_file
\* a script source is a sequence of tokens: the words the argument test
\* looks for, the parts of a database URL (scheme, a path fragment and
\* the .db suffix) and two of the characters that end a URL
ScriptTokens == {"argparse", "--input", "sqlite:///", "app", ".db", "'", " "}

MaxScriptLen == 4

Scripts == UNION {[1..n -> ScriptTokens] : n \in 0..MaxScriptLen}

\* the db_path a caller supplies: a relative path, and the resolved
\* db_folder / f"database_{i}.db" that create_and_populate_database
\* passes, here under a directory whose name holds a blank
DbPaths == {<<"out/db/database_0", ".db">>,
            <<"/", "my", " ", "out/db/database_0", ".db">>}

IsAbsolute(path) == Len(path) > 0 /\ Head(path) = "/"

\* str(Path(db_path).resolve()): a relative path is made absolute against
\* the working directory
Resolve(path) == IF IsAbsolute(path) THEN path ELSE <<"/", "cwd/">> \o path

\* the characters the class [^'\")\s] of the path pattern leaves out
IsDelimiter(tok) == tok \in {"'", "\"", ")", " ", "\n", "\t"}

Max(S) == CHOOSE x \in S : \A y \in S : x >= y

\* index of the last token of the run of non-delimiters that follows i
RunEnd(code, i) ==
  LET stops == {k \in (i + 1)..Len(code) : IsDelimiter(code[k])}
  IN IF stops = {} THEN Len(code) ELSE Min(stops) - 1

\* variant: the path pattern is matched lazily, up to the first .db
MatchEndLazy(code, i) ==
  IF code[i] # "sqlite:///" THEN 0
  ELSE LET ends == {j \in (i + 2)..RunEnd(code, i) : code[j] = ".db"}
       IN IF ends = {} THEN 0 ELSE Min(ends)

\* r"sqlite:///([^'\")\s]+\.db)" matched at i: the index the match ends
\* at, 0 when there is none.  The class is greedy: at least one character
\* and then the last .db of the run
MatchEnd(code, i) ==
  IF code[i] # "sqlite:///" THEN 0
  ELSE LET ends == {j \in (i + 2)..RunEnd(code, i) : code[j] = ".db"}
       IN IF ends = {} THEN 0 ELSE Max(ends)

\* re.sub scans from left to right and replaces the matches it meets,
\* which do not overlap
RECURSIVE RewriteFrom(_, _, _)
RewriteFrom(code, i, url) ==
  IF i > Len(code) THEN <<>>
  ELSE IF MatchEnd(code, i) > 0
       THEN url \o RewriteFrom(code, MatchEnd(code, i) + 1, url)
       ELSE <<code[i]>> \o RewriteFrom(code, i + 1, url)

\* re.sub(r"sqlite:///([^'\")\s]+\.db)", f"sqlite:///{abs_db_path}", code)
RewriteDbPath(code, abs_db_path) ==
  RewriteFrom(code, 1, <<"sqlite:///">> \o abs_db_path)

\* variant: the test of "--input" in code is left out
ScriptCommandArgparseOnly(file_path, db_path, models_file_path, code) ==
  IF ~IsNone(models_file_path) /\ Contains(code, "argparse")
  THEN <<"python", file_path, "--input", models_file_path[1],
         "--output", db_path>>
  ELSE <<"python", file_path>>

\* the command line handed to subprocess.run
ScriptCommand(file_path, db_path, models_file_path, code) ==
  IF /\ ~IsNone(models_file_path)
     /\ Contains(code, "argparse")
     /\ Contains(code, "--input")
  THEN <<"python", file_path, "--input", models_file_path[1],
         "--output", db_path>>
  ELSE <<"python", file_path>>

\* the two calls of create_and_populate_database: the schema script
\* without models_file_path, the population script with it
ScriptCalls ==
  [script : {"schema"}, models_file_path : {None}, db_path : DbPaths,
   code : Scripts, outcome : ExecOutcomes]
  \cup
  [script : {"populate"}, models_file_path : {Some("models.py")},
   db_path : DbPaths, code : Scripts, outcome : ExecOutcomes]

\* _execute_python_file(file_path, db_path, models_file_path): the source
\* is read, rewritten and written back, and the script is run; when the
\* file cannot be read nothing is written and no command is run
ExecuteScript ==
  /\ pc = "exec"
  /\ IsNone(ran)
  /\ LET code == RewriteDbPath(call.code, Resolve(call.db_path))
     IN ran' = Some(
          IF call.outcome.kind = "read_error"
          THEN [written |-> call.code, argv |-> <<>>,
                ret |-> execute_python_file(call.outcome)]
          ELSE [written |-> code,
                argv |-> ScriptCommand("script.py", call.db_path,
                                       call.models_file_path, code),
                ret |-> execute_python_file(call.outcome)])
  /\ UNCHANGED <<response, extracted, call, stream, nucleus>>
  /\ UNCHANGED <<pc, mainVars, execVars, batchVars>>

InitExec ==
  /\ pc = "exec"
  /\ call \in ScriptCalls
  /\ ran = None
  /\ stream = NoStream
  /\ nucleus = NoFilter
  /\ response = <<>>
  /\ extracted = None
  /\ outputDir = "present"
  /\ dbFolder = TRUE
  /\ dbFiles = {}
  /\ db = Absent
  /\ numDatabases = 1
  /\ stateJson = None
  /\ startJson = None
  /\ state = None
  /\ llmCalls = 0
  /\ descriptions = <<>>
  /\ child = <<>>
  /\ dbi = 1
  /\ modelsFile = None
  /\ tempFiles = {}
  /\ buildRet = BuildReturn(1, FALSE, <<>>)
  /\ lastExec = NoExec
  /\ qj = 1
  /\ queryResults = <<>>
  /\ results = <<>>
  /\ dataset = None
  /\ task = <<>>
  /\ permits = 0
  /\ batch = NoBatch
  /\ sqla = NoCall

NextExec == ExecuteScript

SpecExec == InitExec /\ [][NextExec]_vars

\* ------------------------------------------ 01_our_first_chatbot_solution
\* chat(message, history) is a generator over the chunks that
\* completion(..., stream=True) delivers
MaxChunks == 3

\* chunk.choices[0].delta.content of a chunk: None, or a text ("" too)
ChunkTexts == {<<>>, <<"Hel">>, <<"lo">>}

Chunks == {None} \cup {Some(t) : t \in ChunkTexts}

ChunkStreams == UNION {[1..n -> Chunks] : n \in 0..MaxChunks}

\* the history the caller hands over: empty on the first message
Histories ==
  {<<>>,
   <<[role |-> "system", content |-> "SYSTEM_PROMPT"],
     [role |-> "user", content |-> "hi"],
     [role |-> "assistant", content |-> "hello"]>>}

\* the generator runs up to the call of completion
ChatCall ==
  /\ pc = "chat"
  /\ stream.pc = "created"
  /\ LET seeded == IF Len(stream.history) = 0
                   THEN <<[role |-> "system", content |-> "SYSTEM_PROMPT"]>>
                   ELSE stream.history
     IN stream' = [stream EXCEPT
          !.history = Append(seeded, [role |-> "user", content |-> "message"]),
          !.to_return = <<>>,
          !.pc = "streaming"]
  /\ UNCHANGED <<response, extracted, call, ran, nucleus>>
  /\ UNCHANGED <<pc, mainVars, execVars, batchVars>>

\* variant: the content of the chunk is yielded, not the text so far
ChatChunkDelta ==
  /\ pc = "chat"
  /\ stream.pc = "streaming"
  /\ stream.pos < Len(stream.chunks)
  /\ LET content == stream.chunks[stream.pos + 1]
     IN stream' =
          IF IsNone(content)
          THEN [stream EXCEPT !.pos = @ + 1]
          ELSE [stream EXCEPT !.pos = @ + 1,
                              !.to_return = @ \o content[1],
                              !.yielded = Append(@, content[1])]
  /\ UNCHANGED <<response, extracted, call, ran, nucleus>>
  /\ UNCHANGED <<pc, mainVars, execVars, batchVars>>

\* one turn of "for chunk in response": a content that is not None is
\* added to to_return, and to_return is yielded
ChatChunk ==
  /\ pc = "chat"
  /\ stream.pc = "streaming"
  /\ stream.pos < Len(stream.chunks)
  /\ LET content == stream.chunks[stream.pos + 1]
     IN stream' =
          IF IsNone(content)
          THEN [stream EXCEPT !.pos = @ + 1]
          ELSE [stream EXCEPT !.pos = @ + 1,
                              !.to_return = @ \o content[1],
                              !.yielded = Append(@, stream.to_return \o content[1])]
  /\ UNCHANGED <<response, extracted, call, ran, nucleus>>
  /\ UNCHANGED <<pc, mainVars, execVars, batchVars>>

\* the response has no more chunks: the generator is exhausted
ChatEnd ==
  /\ pc = "chat"
  /\ stream.pc = "streaming"
  /\ stream.pos = Len(stream.chunks)
  /\ stream' = [stream EXCEPT !.pc = "exhausted"]
  /\ UNCHANGED <<response, extracted, call, ran, nucleus>>
  /\ UNCHANGED <<pc, mainVars, execVars, batchVars>>

InitChat ==
  /\ pc = "chat"
  /\ stream \in [pc : {"created"}, history : Histories, chunks : ChunkStreams,
                 pos : {0}, to_return : {<<>>}, yielded : {<<>>}]
  /\ nucleus = NoFilter
  /\ call = NoScript
  /\ ran = None
  /\ response = <<>>
  /\ extracted = None
  /\ outputDir = "present"
  /\ dbFolder = TRUE
  /\ dbFiles = {}
  /\ db = Absent
  /\ numDatabases = 1
  /\ stateJson = None
  /\ startJson = None
  /\ state = None
  /\ llmCalls = 0
  /\ descriptions = <<>>
  /\ child = <<>>
  /\ dbi = 1
  /\ modelsFile = None
  /\ tempFiles = {}
  /\ buildRet = BuildReturn(1, FALSE, <<>>)
  /\ lastExec = NoExec
  /\ qj = 1
  /\ queryResults = <<>>
  /\ results = <<>>
  /\ dataset = None
  /\ task = <<>>
  /\ permits = 0
  /\ batch = NoBatch
  /\ sqla = NoCall

NextChat == ChatCall \/ ChatChunk \/ ChatEnd

SpecChat == InitChat /\ [][NextChat]_vars

\* ------------------------------------------------- ctme.basics.plot_top_p
\* Probabilities are floating-point numbers.  A number is modelled as a
\* count of units of 2^-FracBits, and a float as a number of at most
\* MantissaBits significant bits, so that a sum of floats is rounded as
\* numpy rounds it: to the nearest float, ties to the even mantissa
MaxTokens == 4
FracBits == 5
MantissaBits == 3

\* the number 1.0
One == 2^FracBits

RECURSIVE BitLength(_)
BitLength(x) == IF x = 0 THEN 0 ELSE 1 + BitLength(x \div 2)

\* the float nearest to the number x
FlRound(x) ==
  IF BitLength(x) <= MantissaBits THEN x
  ELSE LET q == 2^(BitLength(x) - MantissaBits)
           lo == (x \div q) * q
           rem == x - lo
       IN IF 2 * rem < q THEN lo
          ELSE IF 2 * rem > q THEN lo + q
          ELSE IF (lo \div q) % 2 = 0 THEN lo ELSE lo + q

\* the positive floats up to 1.0
Floats == {x \in 1..One : FlRound(x) = x}

\* the arrays of at most n probabilities
Arrays(n) == UNION {[1..k -> Floats] : k \in 1..n}

\* the sum of the numbers of an array, without rounding
RECURSIVE Sum(_)
Sum(s) == IF s = <<>> THEN 0 ELSE Head(s) + Sum(Tail(s))

\* s without its element at index i
RemoveAt(s, i) == SubSeq(s, 1, i - 1) \o SubSeq(s, i + 1, Len(s))

\* np.sort(probs)[::-1]
RECURSIVE SortDescending(_)
SortDescending(s) ==
  IF s = <<>> THEN <<>>
  ELSE LET i == CHOOSE i \in 1..Len(s) : \A j \in 1..Len(s) : s[i] >= s[j]
       IN <<s[i]>> \o SortDescending(RemoveAt(s, i))

\* np.cumsum(sorted_probs): each partial sum is the float nearest to the
\* previous partial sum plus the next element
CumSum(s) ==
  LET F[k \in 1..Len(s)] == IF k = 1 THEN s[1] ELSE FlRound(F[k - 1] + s[k])
  IN [k \in 1..Len(s) |-> F[k]]

\* np.argmax of an array of booleans: the index (from 0) of the first
\* True, and 0 when no element is True
ArgMax(b) ==
  IF \E k \in 1..Len(b) : b[k] THEN Min({k \in 1..Len(b) : b[k]}) - 1 ELSE 0

top_p_filter(probs, p) ==
  LET sorted_probs == SortDescending(probs)
      cumulative_probs == CumSum(sorted_probs)
      cutoff == IF p < sorted_probs[1] THEN 1
                ELSE ArgMax([k \in 1..Len(probs) |-> cumulative_probs[k] >= p]) + 1
  IN [filtered_probs |-> SubSeq(sorted_probs, 1, cutoff), cutoff |-> cutoff]

TopPFilter ==
  /\ pc = "top_p"
  /\ IsNone(nucleus.ret)
  /\ nucleus' = [nucleus EXCEPT !.ret = Some(top_p_filter(nucleus.probs, nucleus.p))]
  /\ UNCHANGED <<response, extracted, call, ran, stream>>
  /\ UNCHANGED <<pc, mainVars, execVars, batchVars>>

\* the arguments the docstring allows: a non-empty array of probabilities
\* that sums to 1, and 0 < p <= 1
InitTopP ==
  /\ pc = "top_p"
  /\ nucleus \in [probs : Arrays(MaxTokens), p : Floats, ret : {None}]
  /\ Sum(nucleus.probs) = One
  /\ stream = NoStream
  /\ call = NoScript
  /\ ran = None
  /\ response = <<>>
  /\ extracted = None
  /\ outputDir = "present"
  /\ dbFolder = TRUE
  /\ dbFiles = {}
  /\ db = Absent
  /\ numDatabases = 1
  /\ stateJson = None
  /\ startJson = None
  /\ state = None
  /\ llmCalls = 0
  /\ descriptions = <<>>
  /\ child = <<>>
  /\ dbi = 1
  /\ modelsFile = None
  /\ tempFiles = {}
  /\ buildRet = BuildReturn(1, FALSE, <<>>)
  /\ lastExec = NoExec
  /\ qj = 1
  /\ queryResults = <<>>
  /\ results = <<>>
  /\ dataset = None
  /\ task = <<>>
  /\ permits = 0
  /\ batch = NoBatch
  /\ sqla = NoCall

NextTopP == TopPFilter

SpecTopP == InitTopP /\ [][NextTopP]_vars

\* ----------------------------------------------------------------- claims
\* "s in text" for a captured output s: the empty output is in every text
ContainsText(text, s) == s = "" \/ Contains(text, s)

\* the pairs of all databases of the state, database by database
RECURSIVE PairsUpTo(_, _)
PairsUpTo(dbs, n) ==
  IF n = 0 THEN <<>>
  ELSE PairsUpTo(dbs, n - 1)
       \o [j \in 1..Len(QuestionsOf(dbs[n])) |->
             [db_path |-> DbPath(n), pair |-> QuestionsOf(dbs[n])[j]]]

\* process_main_graph_output raised out of main()
ExecutorRaised == pc = "raised" /\ ~IsNone(state)

\* C1: every record of all_results has is_valid = true only with a null
\* error, and is_valid = false only with a null answer.
C1_ValidityFlags ==
  \A k \in 1..Len(results) :
    /\ results[k].is_valid => IsNone(results[k].error)
    /\ ~results[k].is_valid => IsNone(results[k].answer)

\* a finished run whose records include a valid query, a failed query and a
\* pair of a database that could not be built
C1_Witness ==
  /\ pc = "done"
  /\ \E k \in 1..Len(results) : results[k].is_valid /\ ~IsNone(results[k].answer)
  /\ \E k \in 1..Len(results) :
       /\ ~results[k].is_valid
       /\ Contains(results[k].error[1], "Database creation failed: ")
  /\ \E k \in 1..Len(results) :
       /\ ~results[k].is_valid
       /\ ~Contains(results[k].error[1], "Database creation failed: ")

\* C2: process_main_graph_output never raises, and when it has returned
\* all_results holds exactly one record per question/SQL pair of every
\* database of the state, in input order.
C2_OneRecordPerPair ==
  /\ ~ExecutorRaised
  /\ pc \in {"save", "done"} =>
       LET expected == PairsUpTo(Databases, Len(Databases))
       IN /\ Len(results) = Len(expected)
          /\ \A k \in 1..Len(expected) :
               /\ results[k].db_path = expected[k].db_path
               /\ results[k].question = expected[k].pair.question
               /\ results[k].query = expected[k].pair.sql

\* C3: when state.json existed at startup the run issues no LLM call, the
\* file is left as it was, and the state handed to the executor has the
\* company_descriptions and databases of the file.
C3_ResumeWithoutLlm ==
  ~IsNone(startJson) =>
    /\ llmCalls = 0
    /\ stateJson = startJson
    /\ pc # "start" =>
         /\ ~IsNone(state)
         /\ state[1].company_descriptions = startJson[1].company_descriptions
         /\ state[1].databases = startJson[1].databases

\* a resumed run that processed the databases of the file to the end
C3_Witness ==
  /\ ~IsNone(startJson)
  /\ Len(startJson[1].databases) = MaxDesc
  /\ pc = "done"
  /\ Len(results) > 0

\* C4: the run is never aborted, and a run that is done has written the
\* dataset file.
C4_RunCompletes ==
  /\ pc # "raised"
  /\ pc = "done" => ~IsNone(dataset)

\* C5: a child pipeline that failed in one of its stages does not make the
\* graph run raise.
C5_SiblingsSurvive ==
  (\E k \in 1..Len(child) : child[k].stage = "failed") => pc # "raised"

\* C6: create_and_populate_database always returns to the loop, and when it
\* returns a failure for database i the loop appends one failure record per
\* pair of database i and goes on with database i+1 (or returns after the
\* last database).
C6_BuildFailureContained ==
  [][/\ pc \in {"schema", "populate"} => pc' \in {"schema", "populate", "built"}
     /\ (pc = "built" /\ ~buildRet.success) =>
          LET pairs == QuestionsOf(Databases[dbi])
          IN /\ dbi' = dbi + 1
             /\ pc' = IF dbi < Len(Databases) THEN "schema" ELSE "save"
             /\ Len(results') = Len(results) + Len(pairs)
             /\ SubSeq(results', 1, Len(results)) = results
             /\ \A j \in 1..Len(pairs) :
                  /\ results'[Len(results) + j].db_path = DbPath(dbi)
                  /\ results'[Len(results) + j].query = pairs[j].sql
                  /\ ~results'[Len(results) + j].is_valid
                  /\ Contains(results'[Len(results) + j].error[1],
                              "Database creation failed: ")]_vars

\* the first database failed with an unexpected exception, its pairs have
\* failure records, and the second database is being built
C6_Witness ==
  /\ dbi = 2
  /\ pc = "populate"
  /\ Len(results) = MaxPairs
  /\ \A k \in 1..Len(results) :
       /\ results[k].db_path = DbPath(1)
       /\ Contains(results[k].error[1], "Unexpected error: ")

\* C7: outside create_and_populate_database no temporary script file is on
\* disk.
C7_TempFilesRemoved == pc # "populate" => tempFiles = {}

\* C8 as stated: success exactly on exit code 0; on a non-zero exit code
\* and on a timeout the failure message contains the captured stderr and
\* stdout.
C8_FailureMessageVerbatim ==
  lastExec.outcome.kind \in {"exit", "timeout"} =>
    /\ lastExec.ret.success <=>
         (lastExec.outcome.kind = "exit" /\ lastExec.outcome.rc = 0)
    /\ ~lastExec.ret.success =>
         /\ ContainsText(lastExec.ret.msg, lastExec.outcome.stderr)
         /\ ContainsText(lastExec.ret.msg, lastExec.outcome.stdout)

\* C8 amended: success exactly on exit code 0; on a non-zero exit code the
\* failure message contains the captured stderr and stdout; on a timeout
\* the failure message is "Script execution timed out" alone.
C8_FailureMessageAmended ==
  lastExec.outcome.kind \in {"exit", "timeout"} =>
    /\ ~lastExec.ret.raised
    /\ lastExec.ret.success <=>
         (lastExec.outcome.kind = "exit" /\ lastExec.outcome.rc = 0)
    /\ (lastExec.outcome.kind = "exit" /\ lastExec.outcome.rc # 0) =>
         /\ ContainsText(lastExec.ret.msg, lastExec.outcome.stderr)
         /\ ContainsText(lastExec.ret.msg, lastExec.outcome.stdout)
    /\ lastExec.outcome.kind = "timeout" =>
         lastExec.ret.msg = <<"Script execution timed out">>

\* a script exited with a non-zero code and wrote to both streams
C8_Witness ==
  /\ lastExec.outcome.kind = "exit"
  /\ lastExec.outcome.rc # 0
  /\ lastExec.outcome.stderr # ""
  /\ lastExec.outcome.stdout # ""
  /\ ~lastExec.ret.success

\* C9: when the population script of database i exited with a non-zero
\* code, every record appended for database i is invalid and its error
\* holds "Failed to populate database" and the stderr of the script.
C9_PopulateFailureReported ==
  [][(/\ pc = "built"
      /\ lastExec.db = dbi
      /\ lastExec.script = "populate"
      /\ lastExec.outcome.kind = "exit"
      /\ lastExec.outcome.rc # 0) =>
       LET pairs == QuestionsOf(Databases[dbi])
       IN /\ Len(results') = Len(results) + Len(pairs)
          /\ \A j \in 1..Len(pairs) :
               LET rec == results'[Len(results) + j]
               IN /\ rec.db_path = DbPath(dbi)
                  /\ ~rec.is_valid
                  /\ Contains(rec.error[1], "Failed to populate database: ")
                  /\ ContainsText(rec.error[1], lastExec.outcome.stderr)]_vars

\* the records of a database whose population script failed with
\* "IntegrityError" on stderr
C9_Witness ==
  /\ Len(results) = MaxPairs
  /\ lastExec.script = "populate"
  /\ lastExec.outcome.rc # 0
  /\ \A k \in 1..Len(results) :
       /\ Contains(results[k].error[1], "Failed to populate database: ")
       /\ Contains(results[k].error[1], "IntegrityError")

\* C10: a retried call makes at most 4 attempts, waits once before every
\* attempt but the first, spends one attempt per failure, returns at its
\* first success, fails after its 4th failure, and makes no attempt after
\* it returned or failed.
RetryBudget(t) ==
  /\ t.attempt <= MaxAttempts
  /\ t.calls <= MaxAttempts
  /\ t.waits = t.attempt - 1
  /\ t.pc \in {"acquire", "call"} => t.calls = t.attempt - 1 /\ t.failures = t.calls
  /\ t.pc = "calling" => t.calls = t.attempt /\ t.failures = t.calls - 1
  /\ t.pc = "waiting" => t.calls = t.attempt /\ t.failures = t.calls
  /\ t.pc = "returned" => t.failures = t.calls - 1 /\ ~IsNone(t.result)
  /\ t.pc = "failed" =>
       t.failures = MaxAttempts /\ t.calls = MaxAttempts /\ IsNone(t.result)

RetryEnded(t, u) == t.pc \in {"returned", "failed"} => u = t

InFlight == {r \in 1..Len(task) : task[r].pc = "calling"}

\* C11: in generate_schemas_batch(requests, concurrency = N), whatever the
\* interleaving of the request tasks and of their retries, at most N calls
\* to the completion API are in flight, and the semaphore counts them
C11_AtMostNInFlight ==
  batch.pc # "none" =>
    /\ Cardinality(InFlight) <= batch.concurrency
    /\ permits >= 0
    /\ batch.pc = "running" =>
         permits + Cardinality(InFlight) = batch.concurrency

\* N calls are in flight while a retried attempt of another request waits
\* for the semaphore
C11_Witness ==
  /\ batch.pc = "running"
  /\ Cardinality(InFlight) = batch.concurrency
  /\ \E r \in 1..Len(task) : task[r].pc = "acquire" /\ task[r].attempt > 1

\* ---------------------------------------------------------------- C12
\* the create_database tasks that have been started and have not ended
RunningChildren ==
  {k \in 1..Len(child) :
     child[k].stage \in {"sleep", "schema", "populate", "questions"}}

\* a maximum in-flight count that the number of descriptions can exceed
ChildLimit == MaxDesc - 1

\* C12: in the fan-out over the company descriptions, the number of
\* create_database pipelines running at the same time never exceeds the
\* maximum in-flight count, however many descriptions there are
C12_FanOutBounded == Cardinality(RunningChildren) <= ChildLimit

\* ---------------------------------------------------------------- C13
\* the artifacts of a state that carry the request of description d
ArtifactsOf(s, d) ==
  {k \in 1..Len(s.databases) :
     s.databases[k].database_request = s.company_descriptions[d]}

\* C13: when all children succeed, after the fan-in and whatever the
\* interleaving of the children, databases holds exactly one artifact per
\* company description, carrying the database_request of that description;
\* an empty description list spawns no child and leaves databases empty
C13_OneArtifactPerDescription ==
  /\ pc \notin {"start", "descriptions"} /\ IsNone(startJson) =>
       Len(child) = Len(descriptions)
  /\ ~IsNone(state) /\ IsNone(startJson) =>
       /\ state[1].company_descriptions = descriptions
       /\ Len(state[1].databases) = Len(descriptions)
       /\ \A d \in 1..Len(descriptions) :
            Cardinality(ArtifactsOf(state[1], d)) = 1

\* the fan-in of two children has happened
C13_Witness ==
  /\ pc = "save_state"
  /\ IsNone(startJson)
  /\ Len(state[1].databases) >= 2
  /\ \A k \in 1..Len(child) : child[k].stage = "done"

\* ---------------------------------------------------------------- C14
\* main() has ended, by returning or by an exception
RunEnded == pc \in {"done", "raised"}

\* C14: when the output directory does not exist before a run (then no
\* state.json precedes the run), after the run it exists and holds
\* state.json, the db folder with the file database_<i>.db of every
\* generated company and no other, and the dataset file
C14_OutputDirectoryLayout ==
  RunEnded /\ IsNone(startJson) =>
    /\ outputDir = "present"
    /\ ~IsNone(stateJson)
    /\ dbFolder
    /\ dbFiles = {DbPath(i) : i \in 1..Len(stateJson[1].databases)}
    /\ ~IsNone(dataset)

PopulateSucceeded ==
  /\ lastExec.script = "populate"
  /\ lastExec.db = dbi
  /\ lastExec.ret.success

\* C18: when the schema script and the population script have both exited
\* successfully, create_and_populate_database reports success whatever
\* _validate_database_populated finds, and the queries of the database are
\* validated: no failure record is written for it
C18_EmptyDatabaseNotFailed ==
  /\ [](pc = "built" /\ PopulateSucceeded => buildRet.success /\ buildRet.error = <<>>)
  /\ [][ pc = "built" /\ PopulateSucceeded =>
           pc' = "validate" /\ results' = results ]_vars

\* a query of a database in which the validation found no data has been
\* validated
C18_Witness ==
  /\ pc = "validate"
  /\ PopulateSucceeded
  /\ ~validate_database_populated(db).has_data
  /\ qj > 1
  /\ queryResults[1].db_path = DbPath(dbi)

\* ---------------------------------------------------------------- C16
\* the text consists of one fenced block: a marker, with or without the
\* language tag, a body without markers, and a marker
OneFencedBlock(text) == Len(text) >= 2 /\ FenceAt(text) = {1, Len(text)}

\* the same text with the fence markers removed
BlockBody(text) ==
  IF PythonFenceAt(text) # {} THEN SubSeq(text, 3, Len(text) - 1)
  ELSE SubSeq(text, 2, Len(text) - 1)

\* C16: for every text that consists only of one fenced block, extracting
\* from it gives the same result as extracting from the same text with the
\* fence markers removed
C16_ExtractionIdempotent ==
  ~IsNone(extracted) /\ OneFencedBlock(response) =>
    extracted[1] = parse_python_code(BlockBody(response))

\* the body is not blank and either none of its lines holds a code
\* indicator, or its first line that is not blank holds one and is not
\* indented, no line after it is blank, and its last line that is not
\* blank ends without blanks
BodyIsPlainCode(body) ==
  LET s == Strip(body)
      lead == Len(body) - Len(LStrip(body))
      last == Len(RStrip(body))
  IN /\ s # <<>>
     /\ \/ ~HasIndicator(body)
        \/ /\ HasIndicator(SplitLines(s)[1])
           /\ \A k \in 1..Len(SplitLines(s)) : ~IsBlankLine(SplitLines(s)[k])
           /\ lead > 0 => body[lead] = "\n"
           /\ last < Len(body) => body[last + 1] = "\n"

\* C16 amended: extracting from a text that consists only of one fenced
\* block with a plain-code body gives the trimmed body, and so does
\* extracting from the same text with the fence markers removed
C16_ExtractionIdempotentOnPlainCode ==
  (/\ ~IsNone(extracted)
   /\ OneFencedBlock(response)
   /\ BodyIsPlainCode(BlockBody(response))) =>
    /\ extracted[1] = Strip(BlockBody(response))
    /\ extracted[1] = parse_python_code(BlockBody(response))

\* a fenced block of two lines of code, the first with an indicator, has
\* been extracted
C16_Witness ==
  /\ ~IsNone(extracted)
  /\ OneFencedBlock(response)
  /\ BodyIsPlainCode(BlockBody(response))
  /\ HasIndicator(BlockBody(response))
  /\ Len(SplitLines(Strip(BlockBody(response)))) >= 2
  /\ extracted[1] = Strip(BlockBody(response))

\* ---------------------------------------------------------------- C17
\* the lines from the first one that holds a code indicator on, without the
\* blank ones
SalvagedLines(code) ==
  LET lines == SplitLines(code)
      hits == {k \in 1..Len(lines) : HasIndicator(lines[k])}
  IN IF hits = {} THEN <<>>
     ELSE SelectSeq(SubSeq(lines, Min(hits), Len(lines)),
                    LAMBDA line : ~IsBlankLine(line))

\* C17: parse_python_code returns, for every text, the body of the block
\* opened with the python fence; if there is none, the body of the fenced
\* block; if the text has no fence marker, the lines salvaged by the code
\* indicators; and if no line is salvaged, the raw text with the fence
\* markers stripped
C17_FallbackOrder ==
  ~IsNone(extracted) =>
    /\ PythonFenceAt(response) # {} =>
         extracted[1] = Strip(PythonBlock(response))
    /\ PythonFenceAt(response) = {} /\ Cardinality(FenceAt(response)) >= 2 =>
         extracted[1] = Strip(SecondPart(response))
    /\ FenceAt(response) = {} /\ Len(SalvagedLines(response)) > 0 =>
         extracted[1] = Join(SalvagedLines(response))
    /\ FenceAt(response) = {} /\ Len(SalvagedLines(response)) = 0 =>
         extracted[1] = Strip(RemoveFences(response))

\* the text has a fenced block without the python tag whose body is not
\* blank
HasPlainBlock(code) ==
  /\ PythonFenceAt(code) = {}
  /\ Cardinality(FenceAt(code)) >= 2
  /\ Strip(SecondPart(code)) # <<>>

\* C17 amended: parse_python_code returns, for every text, the trimmed body
\* of the block opened with the python fence, even when it is blank; if
\* there is none, the trimmed body of the first fenced block when the text
\* has two fence markers and that body is not blank; otherwise (no marker,
\* one marker, or a blank first block) the lines salvaged by the code
\* indicators, fence markers on them included; and if no line is salvaged,
\* the raw text with the fence markers stripped and trimmed, or the comment
\* "# No valid code could be extracted" when nothing is left of it
C17_FallbackOrderAmended ==
  ~IsNone(extracted) =>
    /\ PythonFenceAt(response) # {} =>
         extracted[1] = Strip(PythonBlock(response))
    /\ HasPlainBlock(response) =>
         extracted[1] = Strip(SecondPart(response))
    /\ (/\ PythonFenceAt(response) = {}
        /\ ~HasPlainBlock(response)
        /\ Len(SalvagedLines(response)) > 0) =>
         extracted[1] = Join(SalvagedLines(response))
    /\ (/\ PythonFenceAt(response) = {}
        /\ ~HasPlainBlock(response)
        /\ Len(SalvagedLines(response)) = 0) =>
         extracted[1] = IF Strip(RemoveFences(response)) # <<>>
                        THEN Strip(RemoveFences(response))
                        ELSE Placeholder

\* a text with one fence marker, which opens no block, has been extracted
\* by the code indicators
C17_Witness ==
  /\ ~IsNone(extracted)
  /\ Cardinality(FenceAt(response)) = 1
  /\ PythonFenceAt(response) = {}
  /\ Len(SalvagedLines(response)) > 0
  /\ extracted[1] = Join(SalvagedLines(response))

\* ---------------------------------------------------------------- C19
\* the keys the three LLM stages put into the state of a child pipeline
StageKeys == {"database_models", "populate_database_script", "question_sql_pairs"}

\* the stages of a child pipeline in their order
StageOrder == <<"sleep", "schema", "populate", "questions", "done">>

\* the number of LLM stages a child has completed
StagesDone(c) ==
  Cardinality({f \in 1..3 :
     ~IsNone(<<c.database_models, c.populate_database_script,
               c.question_sql_pairs>>[f])})

\* C19: within each child pipeline the LLM stages run in the order schema
\* generation, population-script generation, question generation: a stage
\* has its result only when the stages before it have theirs, and a child
\* moves from a stage to the next one only (or fails).  The artifacts are
\* appended only when every child has completed the three stages, and no
\* artifact in databases lacks one of the three keys.
C19_StagesInOrder ==
  /\ [](\A k \in 1..Len(child) :
          LET c == child[k]
          IN /\ ~IsNone(c.populate_database_script) => ~IsNone(c.database_models)
             /\ ~IsNone(c.question_sql_pairs) => ~IsNone(c.populate_database_script)
             /\ c.stage = "done" => StagesDone(c) = 3
             /\ c.stage = "questions" => StagesDone(c) = 2
             /\ c.stage = "populate" => StagesDone(c) = 1
             /\ c.stage \in {"sleep", "schema"} => StagesDone(c) = 0)
  /\ [](~IsNone(state) =>
          \A a \in 1..Len(state[1].databases) :
            StageKeys \subseteq DOMAIN state[1].databases[a])
  /\ [][ /\ \A k \in 1..Len(child) :
              (Len(child') = Len(child) /\ child'[k].stage # child[k].stage) =>
                \/ child'[k].stage = "failed"
                \/ \E n \in 1..4 : /\ child[k].stage = StageOrder[n]
                                   /\ child'[k].stage = StageOrder[n + 1]
         /\ (IsNone(state) /\ ~IsNone(state') /\ IsNone(startJson)) =>
              \A k \in 1..Len(child) : StagesDone(child[k]) = 3 ]_vars

\* the artifacts of two children were appended after six stage calls
C19_Witness ==
  /\ ~IsNone(state)
  /\ IsNone(startJson)
  /\ Len(state[1].databases) = 2
  /\ llmCalls = 7
  /\ \A k \in 1..Len(child) : StagesDone(child[k]) = 3

\* ---------------------------------------------------------------- C20
\* the script source declares the command-line flags
DeclaresFlags(code) == Contains(code, "argparse") /\ Contains(code, "--input")

\* C20: _execute_python_file runs the script with the arguments
\* --input <models file> --output <database path> exactly when a models
\* file path is supplied and the script source declares the flags; in
\* every other case, and always for the schema script, it runs the script
\* without arguments
C20_ArgumentsWhenDeclared ==
  ~IsNone(ran) /\ call.outcome.kind # "read_error" =>
    /\ (~IsNone(call.models_file_path) /\ DeclaresFlags(ran[1].written)) =>
         ran[1].argv = <<"python", "script.py", "--input", "models.py",
                         "--output", call.db_path>>
    /\ ~(~IsNone(call.models_file_path) /\ DeclaresFlags(ran[1].written)) =>
         ran[1].argv = <<"python", "script.py">>
    /\ call.script = "schema" => ran[1].argv = <<"python", "script.py">>

\* a population script that declares the flags has been run with them and
\* has exited with 0
C20_Witness ==
  /\ ~IsNone(ran)
  /\ call.script = "populate"
  /\ DeclaresFlags(ran[1].written)
  /\ Len(ran[1].argv) = 6
  /\ ran[1].ret.success


\* a database URL that starts at i: the scheme, then characters that
\* are no quote, parenthesis or blank, of which the last ones are .db;
\* the URL reaches to the last .db of these characters.  The index the
\* URL ends at, 0 when none starts at i
UrlEnd(code, i) ==
  LET ends == {j \in (i + 2)..Len(code) :
                 /\ code[j] = ".db"
                 /\ \A k \in (i + 1)..j : ~IsDelimiter(code[k])}
  IN IF code[i] = "sqlite:///" /\ ends # {} THEN Max(ends) ELSE 0

\* the URLs of a source, as re.finditer would list them: pairs of the
\* index a match starts at and the index it ends at
RECURSIVE UrlSpans(_, _)
UrlSpans(code, i) ==
  IF i > Len(code) THEN {}
  ELSE IF UrlEnd(code, i) > 0
       THEN {<<i, UrlEnd(code, i)>>} \cup UrlSpans(code, UrlEnd(code, i) + 1)
       ELSE UrlSpans(code, i + 1)

\* the text of a source outside its URLs
OutsideUrls(code) ==
  LET inside(k) == \E s \in UrlSpans(code, 1) : s[1] <= k /\ k <= s[2]
      F[k \in 0..Len(code)] ==
        IF k = 0 THEN <<>>
        ELSE IF inside(k) THEN F[k - 1] ELSE Append(F[k - 1], code[k])
  IN F[Len(code)]

\* url occurs in text at index i
OccursAt(text, url, i) ==
  i + Len(url) - 1 <= Len(text) /\ SubSeq(text, i, i + Len(url) - 1) = url

\* the text that is left when every occurrence of url is taken out
RECURSIVE Without(_, _, _)
Without(text, url, i) ==
  IF i > Len(text) THEN <<>>
  ELSE IF OccursAt(text, url, i) THEN Without(text, url, i + Len(url))
       ELSE <<text[i]>> \o Without(text, url, i + 1)

C30_NeverRaises ==
  ~IsNone(ran) =>
    /\ ~ran[1].ret.raised
    /\ (call.outcome.kind # "exit" \/ call.outcome.rc # 0) =>
         ~ran[1].ret.success


\* C22: two successive LLM calls of the generation graph are separated by
\* the delay.  The only delay of the graph is the sleep a create_database
\* task starts with, and a task whose sleep has ended and that has not
\* called yet is at its schema stage: so when an LLM call other than the
\* first one starts, some task is at its schema stage
C22_DelayBetweenCalls ==
  [][(llmCalls' = llmCalls + 1 /\ llmCalls > 0) =>
       \E j \in DOMAIN child : child[j].stage = "schema"]_vars


\* the text of the first n chunks: their contents that are not None, joined
RECURSIVE TextOf(_, _)
TextOf(chunks, n) ==
  IF n = 0 THEN <<>>
  ELSE IF IsNone(chunks[n]) THEN TextOf(chunks, n - 1)
       ELSE TextOf(chunks, n - 1) \o chunks[n][1]

\* the indices among the first n chunks whose content is not None
WithContent(chunks, n) == {k \in 1..n : ~IsNone(chunks[k])}

\* what a caller gets who joins the strings the generator yielded
RECURSIVE Concatenation(_)
Concatenation(strings) ==
  IF strings = <<>> THEN <<>>
  ELSE Head(strings) \o Concatenation(Tail(strings))

\* C23 as stated: when the stream has ended, chat has yielded one
\* fragment per chunk with content, and the fragments joined in order are
\* the full response of the model
C23_FragmentsJoinToResponse ==
  stream.pc = "exhausted" =>
    /\ Len(stream.yielded)
         = Cardinality(WithContent(stream.chunks, Len(stream.chunks)))
    /\ Concatenation(stream.yielded)
         = TextOf(stream.chunks, Len(stream.chunks))

\* C23 amended: chat yields one string per chunk with content, in arrival
\* order, and nothing for a chunk without; the n-th string is the whole
\* text received up to the n-th such chunk, so the last string yielded,
\* not the concatenation, is the full response
C23_YieldsTextSoFar ==
  stream.pc \in {"streaming", "exhausted"} =>
    LET seen == WithContent(stream.chunks, stream.pos)
    IN /\ Len(stream.yielded) = Cardinality(seen)
       /\ \A k \in seen :
            stream.yielded[Cardinality(WithContent(stream.chunks, k))]
              = TextOf(stream.chunks, k)
       /\ stream.to_return = TextOf(stream.chunks, stream.pos)
       /\ (stream.pc = "exhausted" /\ seen # {}) =>
            stream.yielded[Len(stream.yielded)]
              = TextOf(stream.chunks, Len(stream.chunks))

\* a stream of a chunk with content, a chunk without and another chunk
\* with content has ended: two strings were yielded, the second one the
\* text of both chunks
C23_Witness ==
  /\ stream.pc = "exhausted"
  /\ Len(stream.chunks) = 3
  /\ IsNone(stream.chunks[2])
  /\ Len(stream.yielded) = 2
  /\ stream.yielded[2] = <<"Hel", "lo">>


\* C24: for a non-empty array of probabilities that sums to 1 and a
\* threshold 0 < p <= 1, top_p_filter selects at least one token and
\* returns the cutoff largest probabilities in descending order, where
\* cutoff is the smallest count of them whose sum is at least p
C24_SmallestCutoff ==
  ~IsNone(nucleus.ret) =>
    LET sorted_probs == SortDescending(nucleus.probs)
        r == nucleus.ret[1]
    IN /\ r.cutoff >= 1
       /\ r.filtered_probs = SubSeq(sorted_probs, 1, r.cutoff)
       /\ \A k \in 1..(r.cutoff - 1) :
            r.filtered_probs[k] >= r.filtered_probs[k + 1]
       /\ Sum(r.filtered_probs) >= nucleus.p
       /\ \A k \in 1..(r.cutoff - 1) : Sum(SubSeq(sorted_probs, 1, k)) < nucleus.p


\* a step in which the script of the given kind is executed
ScriptExecuted(kind) == lastExec' # lastExec /\ lastExec'.script = kind

\* a step in which a query of the database at hand is executed: its record
\* is appended, or its exception leaves validate_queries
QueryExecuted ==
  \/ Len(queryResults') = Len(queryResults) + 1
  \/ pc = "validate" /\ pc' = "raised"

\* the last script executed was of the given kind, for database i, and
\* exited with 0
ExitedWithZero(kind, i) ==
  /\ lastExec.script = kind
  /\ lastExec.db = i
  /\ lastExec.outcome.kind = "exit"
  /\ lastExec.outcome.rc = 0

\* C25: the schema script of a database is executed once, before anything
\* else of that database; its population script is executed only directly
\* after the schema script exited with 0, and a query of it only after
\* the population script exited with 0.  So after a schema script that
\* failed neither the population script nor a query of that database is
\* executed, and after a population script that failed no query is
C25_ScriptsBeforeQueries ==
  [][/\ ScriptExecuted("schema") =>
          lastExec'.db = dbi /\ lastExec.db < dbi
     /\ ScriptExecuted("populate") =>
          lastExec'.db = dbi /\ ExitedWithZero("schema", dbi)
     /\ QueryExecuted =>
          /\ ExitedWithZero("populate", dbi)
          /\ \A k \in 1..Len(queryResults') :
               queryResults'[k].db_path = DbPath(dbi)]_vars

\* the queries of a database whose two scripts exited with 0 were
\* executed, after the scripts of an earlier database had failed
C25_Witness ==
  /\ pc = "validate"
  /\ dbi = 2
  /\ Len(queryResults) = MaxPairs
  /\ ExitedWithZero("populate", 2)
  /\ \E k \in 1..Len(results) :
       /\ results[k].db_path = DbPath(1)
       /\ ContainsText(results[k].error[1], "Database creation failed: ")


\* among the first n records of validate_queries there is a statement
\* that is no SELECT and that executed without error
ChangeCommitted(n) ==
  \E j \in 1..n :
    queryResults[j].is_valid /\ ~StartsWithSelect(queryResults[j].query)

\* C27: validate_queries executes the queries of a database one after
\* another in list order against the file of that database.  A SELECT
\* and a statement that raises leave the contents as they are; a
\* statement that is no SELECT and succeeds is committed, and every
\* later query reads what it wrote: the select of the active customers
\* returns every customer after a successful UPDATE and none before
C27_QueriesInOrderOnOneFile ==
  pc = "validate" =>
    LET pairs == QuestionsOf(Databases[dbi])
    IN /\ Len(queryResults) = qj - 1
       /\ \A k \in 1..Len(queryResults) :
            LET rec == queryResults[k]
            IN /\ rec.query = pairs[k].sql
               /\ rec.question = pairs[k].question
               /\ rec.db_path = DbPath(dbi)
               /\ (rec.is_valid /\ rec.query = SqlPool[1]) =>
                    rec.answer[1].value = << <<db.customers>> >>
               /\ (rec.is_valid /\ rec.query = SqlPool[2]) =>
                    rec.answer[1].value = db.customers
               /\ (rec.is_valid /\ rec.query = SqlPool[3]) =>
                    Len(rec.answer[1].value)
                      = IF ChangeCommitted(k - 1) THEN db.customers ELSE 0
       /\ db.active = IF ChangeCommitted(Len(queryResults))
                      THEN db.customers ELSE 0

\* the UPDATE of the 5 customers of the second database succeeded and the
\* select that followed it returned the 5 customers
C27_Witness ==
  /\ pc = "validate"
  /\ dbi = 2
  /\ Len(queryResults) = 2
  /\ queryResults[1].query = SqlPool[2]
  /\ queryResults[1].is_valid
  /\ queryResults[2].query = SqlPool[3]
  /\ queryResults[2].is_valid
  /\ Len(queryResults[2].answer[1].value) = 5


\* the executor has not begun: no db folder, no script, no record
ExecutorUntouched ==
  /\ ~dbFolder
  /\ lastExec = NoExec
  /\ tempFiles = {}
  /\ results = <<>>
  /\ IsNone(dataset)

\* C28: state.json changes at most once in a run, from absent to the dump
\* of the state the generation graph returned.  A state.json that existed
\* at startup is never modified, and the state is then the one it holds
\* whatever --num-databases says, with no LLM call.  When none existed,
\* state.json is written only after every create_database task has
\* completed and the graph has returned, and before the executor begins;
\* a run whose generation raised leaves none behind
C28_StateJsonWrittenOnce ==
  /\ ~IsNone(startJson) =>
       /\ stateJson = startJson
       /\ llmCalls = 0
       /\ ~IsNone(state) => state[1] = JsonLoad(startJson[1])
  /\ (IsNone(startJson) /\ ~IsNone(stateJson)) =>
       /\ ~IsNone(state)
       /\ stateJson = Some(JsonDump(state[1]))
       /\ \A k \in 1..Len(child) : child[k].stage = "done"
       /\ Len(state[1].databases) = Len(descriptions)
  /\ (IsNone(startJson) /\ IsNone(stateJson)) => ExecutorUntouched
  /\ (pc = "raised" /\ IsNone(startJson) /\ IsNone(state)) => IsNone(stateJson)

\* a run that found no state.json has written it and has gone on to
\* execute a script
C28_Witness ==
  /\ IsNone(startJson)
  /\ ~IsNone(stateJson)
  /\ lastExec # NoExec
  /\ Len(stateJson[1].databases) = MaxDesc


\* C29: the k-th schema generate_schemas_batch returns is the one that was
\* generated for the k-th request, in whatever order the coroutines and
\* their retries complete, and db_schemas.main writes every schema with
\* the request it was generated for
C29_SchemaPairedWithItsRequest ==
  /\ batch.pc \in {"returned", "written"} =>
       /\ Len(batch.schemas) = Len(task)
       /\ \A k \in 1..Len(batch.schemas) : batch.schemas[k].request = k
  /\ batch.pc = "written" =>
       /\ Len(batch.written) = Len(task)
       /\ \A k \in 1..Len(batch.written) :
            /\ batch.written[k].request = k
            /\ batch.written[k].generated_for = k

\* the schemas were written after the second request had completed
\* before the first one, which needed a retry
C29_Witness ==
  /\ batch.pc = "written"
  /\ batch.completed[1] = 2
  /\ task[1].attempt > 1


\* the coroutine of request r has returned its schema, or tenacity has
\* given up on it
ReturnedOrFailed(r) == task[r].pc \in {"returned", "failed"}

\* C26 as stated: every request of the batch eventually returns a
\* validated schema or fails after its fourth attempt.  The batch ends
\* when the schemas are written or the failure is raised, and a request
\* has no step after that: so when the batch has ended, every request
\* has returned or has failed after its fourth attempt
C26_EveryRequestReturnsOrFails ==
  batch.pc \in {"written", "raised"} =>
    \A r \in 1..NumRequests :
      /\ ReturnedOrFailed(r)
      /\ task[r].pc = "failed" => task[r].attempt = MaxAttempts

\* C26 amended: every request eventually returns a validated schema,
\* fails after its fourth attempt, or is cancelled after another request
\* has failed; a coroutine holds a permit only while its call is in
\* flight, not while it waits for a retry, and the batch always comes to
\* an end: the schemas are written or the failure is raised
C26_EveryRequestEnds ==
  /\ \A r \in 1..NumRequests :
       <>(ReturnedOrFailed(r) \/ task[r].pc = "cancelled")
  /\ <>(batch.pc \in {"written", "raised"})
  /\ [](\A r \in 1..NumRequests :
          /\ task[r].pc = "failed" =>
               task[r].attempt = MaxAttempts /\ task[r].calls = MaxAttempts
          /\ task[r].pc = "cancelled" =>
               \E q \in 1..NumRequests : task[q].pc = "failed")
  /\ [](batch.pc = "running" =>
          permits = batch.concurrency
                      - Cardinality({r \in 1..NumRequests : task[r].pc = "calling"}))

\* a request is waiting for its retry while the only permit is held by
\* the other request
C26_Witness ==
  /\ batch.pc = "running"
  /\ batch.concurrency = 1
  /\ permits = 0
  /\ task[1].pc = "waiting"
  /\ task[2].pc = "calling"

====
